---------------------------- MODULE Spec2Model ----------------------------
(***************************************************************************)
(* A model of the joyvm class-file decoder (src/src/classloader.rs) and of *)
(* the constant-pool index resolver (src/src/classes.rs).                  *)
(*                                                                         *)
(* The byte cursor (bytes::Buf) is the pair data, pos: data is the whole   *)
(* input, pos the number of bytes already consumed, so that                *)
(* remaining() = Len(data) - pos.  Every decoder is an operator from       *)
(* (data, pos) to an outcome record that carries the value or the error    *)
(* and the cursor position the call leaves behind.                         *)
(*                                                                         *)
(* Number representation.  u8 and u16 values are naturals.  A u32 is the   *)
(* pair <<hi, lo>> of its 16-bit halves and a u64 the 4-tuple of its       *)
(* 16-bit limbs, most significant first.  An f32 or f64 value is the       *)
(* record of its sign, biased exponent and fraction.  A Rust String is the *)
(* sequence of its UTF-8 bytes.                                            *)
(***************************************************************************)
EXTENDS Integers, Sequences, FiniteSets, TLC

VARIABLES
    data,       \* the input bytes behind the cursor
    pos,        \* bytes consumed from the cursor so far
    constants,  \* the constant pool handed to the call
    index,      \* the ConstantIndex handed to lookup
    op,         \* the operation that has run on this input ("none" before)
    result,     \* the outcome of that operation
    stack       \* the calls of deserialize_code under way, innermost last

vars == <<data, pos, constants, index, op, result, stack>>

(***************************************************************************)
(* Outcomes                                                                *)
(***************************************************************************)
Ok(v, p) == [ok |-> TRUE, val |-> v, pos |-> p]

Err(e, p) == [ok |-> FALSE, err |-> e, pos |-> p]

NoResult == [ok |-> FALSE, err |-> [kind |-> "None"], pos |-> 0]

(***************************************************************************)
(* bytes::Buf                                                              *)
(***************************************************************************)
remaining(d, p) == Len(d) - p

get_u8(d, p) == d[p + 1]

\* get_u16_le in the place of get_u16_be
get_u16_le(d, p) == d[p + 2] * 256 + d[p + 1]

get_u16_be(d, p) == d[p + 1] * 256 + d[p + 2]

get_u32_be(d, p) == <<get_u16_be(d, p), get_u16_be(d, p + 2)>>

get_u64_be(d, p) ==
    <<get_u16_be(d, p), get_u16_be(d, p + 2), get_u16_be(d, p + 4), get_u16_be(d, p + 6)>>

\* f32::from_bits and f32::to_bits: an f32 is its sign, its biased exponent and
\* its fraction (23 bits, as the pair of the top 7 and the low 16)
f32_from_bits(bits) ==
    [sign |-> bits[1] \div 32768, exponent |-> (bits[1] \div 128) % 256,
     fraction |-> <<bits[1] % 128, bits[2]>>]

f32_to_bits(f) == <<f.sign * 32768 + f.exponent * 128 + f.fraction[1], f.fraction[2]>>

\* f64::from_bits and f64::to_bits: sign, biased exponent (11 bits) and fraction
\* (52 bits, as the top 4 and three 16-bit limbs)
f64_from_bits(bits) ==
    [sign |-> bits[1] \div 32768, exponent |-> (bits[1] \div 16) % 2048,
     fraction |-> <<bits[1] % 16, bits[2], bits[3], bits[4]>>]

f64_to_bits(f) ==
    <<f.sign * 32768 + f.exponent * 16 + f.fraction[1], f.fraction[2], f.fraction[3],
      f.fraction[4]>>

\* get_f32_be giving the one canonical quiet NaN for every NaN
get_f32_be_canonical_nan(d, p) ==
    LET f == f32_from_bits(get_u32_be(d, p))
    IN  IF f.exponent = 255 /\ f.fraction # <<0, 0>>
        THEN [sign |-> 0, exponent |-> 255, fraction |-> <<64, 0>>]
        ELSE f

get_f32_be(d, p) == f32_from_bits(get_u32_be(d, p))

get_f64_be(d, p) == f64_from_bits(get_u64_be(d, p))

\* n as u32, for a natural n below 2^31
AsU32(n) == <<(n \div 65536) % 65536, n % 65536>>

\* n < len, for a natural n below 2^31 and a u32 len
LessThanU32(n, len) ==
    \/ n \div 65536 < len[1]
    \/ n \div 65536 = len[1] /\ n % 65536 < len[2]

\* len as usize, used only where len <= remaining
AsUsize(len) == len[1] * 65536 + len[2]

(***************************************************************************)
(* require!                                                                *)
(***************************************************************************)
Eof(context) == [kind |-> "Eof", context |-> context]

\* require!(data has n bytes for context) passes
require(d, p, n) == ~(remaining(d, p) < n)

(***************************************************************************)
(* ConstantIndex::lookup                                                   *)
(***************************************************************************)
Dummy == [type |-> "Dummy"]

ZeroIndex == [kind |-> "ZeroIndex"]

OutOfRange(i) == [kind |-> "OutOfRange", index |-> i]

IndexInsideDoubleWidthConstant(i) == [kind |-> "IndexInsideDoubleWidthConstant", index |-> i]

\* lookup with the range check off by one: the last slot is out of range
lookup_last_slot_out_of_range(i, constant_pool) ==
    IF i = 0 THEN Err(ZeroIndex, 0)
    ELSE IF Len(constant_pool) <= i THEN Err(OutOfRange(i), 0)
    ELSE LET constant == constant_pool[i - 1 + 1]
         IN  IF constant.type = "Dummy"
             THEN Err(IndexInsideDoubleWidthConstant(i), 0)
             ELSE Ok(constant, 0)

lookup(i, constant_pool) ==
    IF i = 0 THEN Err(ZeroIndex, 0)
    ELSE IF Len(constant_pool) < i THEN Err(OutOfRange(i), 0)
    ELSE LET constant == constant_pool[i - 1 + 1]
         IN  IF constant.type = "Dummy"
             THEN Err(IndexInsideDoubleWidthConstant(i), 0)
             ELSE Ok(constant, 0)

(***************************************************************************)
(* Constant (src/src/classes.rs) and the constant decoder                  *)
(***************************************************************************)
Utf8(s) == [type |-> "Utf8", text |-> s]

Integer(v) == [type |-> "Integer", value |-> v]

Float(f) == [type |-> "Float", value |-> f]

Long(v) == [type |-> "Long", value |-> v]

Double(f) == [type |-> "Double", value |-> f]

ClassRef(i) == [type |-> "ClassRef", index |-> i]

StringRef(i) == [type |-> "StringRef", index |-> i]

FieldRef(c, nt) == [type |-> "FieldRef", class |-> c, name_and_type |-> nt]

MethodRef(c, nt) == [type |-> "MethodRef", class |-> c, name_and_type |-> nt]

InterfaceMethodRef(c, nt) == [type |-> "InterfaceMethodRef", class |-> c, name_and_type |-> nt]

NameAndTypeRef(n, desc) == [type |-> "NameAndTypeRef", name |-> n, descriptor |-> desc]

MethodHandleRef(h) == [type |-> "MethodHandleRef", handle |-> h]

MethodType(i) == [type |-> "MethodType", index |-> i]

InvokeDynamicInfo(b, nt) == [type |-> "InvokeDynamicInfo", bootstrap_method_attr |-> b, name_and_type |-> nt]

MethodHandle(variant, i) == [variant |-> variant, index |-> i]

InvalidConstantType(tag) == [kind |-> "InvalidConstantType", byte |-> tag]

InvalidMethodHandleKind(k) == [kind |-> "InvalidMethodHandleKind", byte |-> k]

Utf8Error(valid_up_to) == [kind |-> "Utf8", valid_up_to |-> valid_up_to]

\* Constant::get_tag
get_tag(c) ==
    CASE c.type = "Utf8" -> 1
      [] c.type = "Integer" -> 3
      [] c.type = "Float" -> 4
      [] c.type = "Long" -> 5
      [] c.type = "Double" -> 6
      [] c.type = "ClassRef" -> 7
      [] c.type = "StringRef" -> 8
      [] c.type = "FieldRef" -> 9
      [] c.type = "MethodRef" -> 10
      [] c.type = "InterfaceMethodRef" -> 11
      [] c.type = "NameAndTypeRef" -> 12
      [] c.type = "MethodHandleRef" -> 15
      [] c.type = "MethodType" -> 16
      [] c.type = "InvokeDynamicInfo" -> 18
      [] OTHER -> -1

(***************************************************************************)
(* str::from_utf8: the length of the longest prefix of s that is valid     *)
(* UTF-8 (valid_up_to); s is valid exactly when that is Len(s).            *)
(***************************************************************************)
IsContinuation(s, i) == i <= Len(s) /\ s[i] >= 128 /\ s[i] <= 191

InRange(s, i, lo, hi) == i <= Len(s) /\ s[i] >= lo /\ s[i] <= hi

\* the width of the well-formed sequence starting at s[i], 0 when there is none
Utf8CharWidth(s, i) ==
    LET first == s[i]
    IN  IF first < 128 THEN 1
        ELSE IF first >= 194 /\ first <= 223
            THEN IF IsContinuation(s, i + 1) THEN 2 ELSE 0
        ELSE IF first >= 224 /\ first <= 239
            THEN IF /\ \/ first = 224 /\ InRange(s, i + 1, 160, 191)
                       \/ first >= 225 /\ first <= 236 /\ InRange(s, i + 1, 128, 191)
                       \/ first = 237 /\ InRange(s, i + 1, 128, 159)
                       \/ first >= 238 /\ InRange(s, i + 1, 128, 191)
                    /\ IsContinuation(s, i + 2)
                 THEN 3 ELSE 0
        ELSE IF first >= 240 /\ first <= 244
            THEN IF /\ \/ first = 240 /\ InRange(s, i + 1, 144, 191)
                       \/ first >= 241 /\ first <= 243 /\ InRange(s, i + 1, 128, 191)
                       \/ first = 244 /\ InRange(s, i + 1, 128, 143)
                    /\ IsContinuation(s, i + 2)
                    /\ IsContinuation(s, i + 3)
                 THEN 4 ELSE 0
        ELSE 0

RECURSIVE ValidUpTo(_, _)
ValidUpTo(s, i) ==
    IF i > Len(s) THEN Len(s)
    ELSE LET w == Utf8CharWidth(s, i)
         IN  IF w = 0 THEN i - 1 ELSE ValidUpTo(s, i + w)

from_utf8(s, p) ==
    IF ValidUpTo(s, 1) = Len(s) THEN Ok(Utf8(s), p) ELSE Err(Utf8Error(ValidUpTo(s, 1)), p)

(***************************************************************************)
(* deserialize_* helpers of the constant decoder.  p is the cursor         *)
(* position on entry, after the tag byte.                                  *)
(***************************************************************************)
\* deserialize_constant_index without its require!: get_u16_be on fewer than
\* two bytes panics
deserialize_constant_index_without_require(d, p) ==
    IF remaining(d, p) < 2 THEN Err([kind |-> "Panic"], p)
    ELSE Ok(get_u16_be(d, p), p + 2)

deserialize_constant_index(d, p) ==
    IF ~require(d, p, 2) THEN Err(Eof("constant index"), p)
    ELSE Ok(get_u16_be(d, p), p + 2)

deserialize_method_index(d, p) ==
    IF ~require(d, p, 2) THEN Err(Eof("method index"), p)
    ELSE Ok(get_u16_be(d, p), p + 2)

\* deserialize_utf8 taking the bytes that are there when fewer than length remain
deserialize_utf8_short_read(d, p) ==
    IF ~require(d, p, 2) THEN Err(Eof("length field of Utf8 constant"), p)
    ELSE LET length == get_u16_be(d, p)
             n == IF remaining(d, p + 2) < length THEN remaining(d, p + 2) ELSE length
         IN  from_utf8(SubSeq(d, p + 3, p + 2 + n), p + 2 + n)

\* deserialize_utf8 keeping the valid leading part of text that is not UTF-8
deserialize_utf8_lossy(d, p) ==
    IF ~require(d, p, 2) THEN Err(Eof("length field of Utf8 constant"), p)
    ELSE LET length == get_u16_be(d, p)
             text == from_utf8(SubSeq(d, p + 3, p + 2 + length), p + 2 + length)
         IN  IF ~require(d, p + 2, length) THEN Err(Eof("Utf8 constant"), p + 2)
             ELSE IF text.ok THEN text
             ELSE Ok(Utf8(SubSeq(d, p + 3, p + 2 + text.err.valid_up_to)), p + 2 + length)

deserialize_utf8(d, p) ==
    IF ~require(d, p, 2) THEN Err(Eof("length field of Utf8 constant"), p)
    ELSE LET length == get_u16_be(d, p)
         IN  IF ~require(d, p + 2, length) THEN Err(Eof("Utf8 constant"), p + 2)
             ELSE from_utf8(SubSeq(d, p + 3, p + 2 + length), p + 2 + length)

deserialize_integer(d, p) ==
    IF ~require(d, p, 4) THEN Err(Eof("Integer constant"), p)
    ELSE Ok(Integer(get_u32_be(d, p)), p + 4)

deserialize_float(d, p) ==
    IF ~require(d, p, 4) THEN Err(Eof("Float constant"), p)
    ELSE Ok(Float(get_f32_be(d, p)), p + 4)

\* deserialize_long requiring 8 bytes but reading one 4-byte word
deserialize_long_one_word(d, p) ==
    IF ~require(d, p, 8) THEN Err(Eof("Long constant"), p)
    ELSE Ok(Long(<<0, 0>> \o get_u32_be(d, p)), p + 4)

deserialize_long(d, p) ==
    IF ~require(d, p, 8) THEN Err(Eof("Long constant"), p)
    ELSE Ok(Long(get_u64_be(d, p)), p + 8)

deserialize_double(d, p) ==
    IF ~require(d, p, 8) THEN Err(Eof("Double constant"), p)
    ELSE Ok(Double(get_f64_be(d, p)), p + 8)

deserialize_classref(d, p) ==
    LET i == deserialize_constant_index(d, p)
    IN  IF i.ok THEN Ok(ClassRef(i.val), i.pos) ELSE i

deserialize_string(d, p) ==
    LET i == deserialize_constant_index(d, p)
    IN  IF i.ok THEN Ok(StringRef(i.val), i.pos) ELSE i

deserialize_fieldref(d, p) ==
    LET class == deserialize_constant_index(d, p)
    IN  IF ~class.ok THEN class
        ELSE LET name_and_type == deserialize_constant_index(d, class.pos)
             IN  IF ~name_and_type.ok THEN name_and_type
                 ELSE Ok(FieldRef(class.val, name_and_type.val), name_and_type.pos)

\* deserialize_methodref reading the name-and-type index first
deserialize_methodref_name_and_type_first(d, p) ==
    LET name_and_type == deserialize_constant_index(d, p)
    IN  IF ~name_and_type.ok THEN name_and_type
        ELSE LET class == deserialize_constant_index(d, name_and_type.pos)
             IN  IF ~class.ok THEN class
                 ELSE Ok(MethodRef(class.val, name_and_type.val), class.pos)

deserialize_methodref(d, p) ==
    LET class == deserialize_constant_index(d, p)
    IN  IF ~class.ok THEN class
        ELSE LET name_and_type == deserialize_constant_index(d, class.pos)
             IN  IF ~name_and_type.ok THEN name_and_type
                 ELSE Ok(MethodRef(class.val, name_and_type.val), name_and_type.pos)

deserialize_interface_method_ref(d, p) ==
    LET class == deserialize_constant_index(d, p)
    IN  IF ~class.ok THEN class
        ELSE LET name_and_type == deserialize_constant_index(d, class.pos)
             IN  IF ~name_and_type.ok THEN name_and_type
                 ELSE Ok(InterfaceMethodRef(class.val, name_and_type.val), name_and_type.pos)

\* the match on kind with InvokeSpecial at 6 and InvokeStatic at 7
method_handle_of_kind_special_before_static(kind, i, p) ==
    CASE kind = 1 -> Ok(MethodHandle("GetField", i), p)
      [] kind = 2 -> Ok(MethodHandle("GetStatic", i), p)
      [] kind = 3 -> Ok(MethodHandle("PutField", i), p)
      [] kind = 4 -> Ok(MethodHandle("PutStatic", i), p)
      [] kind = 5 -> Ok(MethodHandle("InvokeVirtual", i), p)
      [] kind = 6 -> Ok(MethodHandle("InvokeSpecial", i), p)
      [] kind = 7 -> Ok(MethodHandle("InvokeStatic", i), p)
      [] kind = 8 -> Ok(MethodHandle("NewInvokeSpecial", i), p)
      [] kind = 9 -> Ok(MethodHandle("InvokeInterface", i), p)
      [] OTHER -> Err(InvalidMethodHandleKind(kind), p)

\* the match on kind of deserialize_method_handle_ref
method_handle_of_kind(kind, i, p) ==
    CASE kind = 1 -> Ok(MethodHandle("GetField", i), p)
      [] kind = 2 -> Ok(MethodHandle("GetStatic", i), p)
      [] kind = 3 -> Ok(MethodHandle("PutField", i), p)
      [] kind = 4 -> Ok(MethodHandle("PutStatic", i), p)
      [] kind = 5 -> Ok(MethodHandle("InvokeVirtual", i), p)
      [] kind = 6 -> Ok(MethodHandle("InvokeStatic", i), p)
      [] kind = 7 -> Ok(MethodHandle("InvokeSpecial", i), p)
      [] kind = 8 -> Ok(MethodHandle("NewInvokeSpecial", i), p)
      [] kind = 9 -> Ok(MethodHandle("InvokeInterface", i), p)
      [] OTHER -> Err(InvalidMethodHandleKind(kind), p)

deserialize_method_handle_ref(d, p) ==
    IF ~require(d, p, 1) THEN Err(Eof("method handle ref kind"), p)
    ELSE LET kind == get_u8(d, p)
             i == deserialize_constant_index(d, p + 1)
         IN  IF ~i.ok THEN i
             ELSE LET handle == method_handle_of_kind(kind, i.val, i.pos)
                  IN  IF handle.ok THEN Ok(MethodHandleRef(handle.val), handle.pos)
                      ELSE handle

deserialize_method_type(d, p) ==
    LET i == deserialize_constant_index(d, p)
    IN  IF i.ok THEN Ok(MethodType(i.val), i.pos) ELSE i

deserialize_invoke_dynamic_info(d, p) ==
    LET bootstrap_method_attr == deserialize_method_index(d, p)
    IN  IF ~bootstrap_method_attr.ok THEN bootstrap_method_attr
        ELSE LET name_and_type == deserialize_constant_index(d, bootstrap_method_attr.pos)
             IN  IF ~name_and_type.ok THEN name_and_type
                 ELSE Ok(InvokeDynamicInfo(bootstrap_method_attr.val, name_and_type.val),
                         name_and_type.pos)

\* Constant::deserialize with an arm for tag 12 (Constant::get_tag knows it)
Constant_deserialize_with_tag_12(d, p) ==
    IF ~require(d, p, 1) THEN Err(Eof("constant tag"), p)
    ELSE LET tag == get_u8(d, p)
             q == p + 1
             name == deserialize_constant_index(d, q)
         IN  CASE tag = 1 -> deserialize_utf8(d, q)
               [] tag = 3 -> deserialize_integer(d, q)
               [] tag = 4 -> deserialize_float(d, q)
               [] tag = 5 -> deserialize_long(d, q)
               [] tag = 6 -> deserialize_double(d, q)
               [] tag = 7 -> deserialize_classref(d, q)
               [] tag = 8 -> deserialize_string(d, q)
               [] tag = 9 -> deserialize_fieldref(d, q)
               [] tag = 10 -> deserialize_methodref(d, q)
               [] tag = 11 -> deserialize_interface_method_ref(d, q)
               [] tag = 12 ->
                    IF ~name.ok THEN name
                    ELSE LET descriptor == deserialize_constant_index(d, name.pos)
                         IN  IF ~descriptor.ok THEN descriptor
                             ELSE Ok(NameAndTypeRef(name.val, descriptor.val), descriptor.pos)
               [] tag = 15 -> deserialize_method_handle_ref(d, q)
               [] tag = 16 -> deserialize_method_type(d, q)
               [] tag = 18 -> deserialize_invoke_dynamic_info(d, q)
               [] OTHER -> Err(InvalidConstantType(tag), q)

\* Constant::deserialize with an arm that takes tag 0 for the placeholder
Constant_deserialize_with_tag_0(d, p) ==
    IF ~require(d, p, 1) THEN Err(Eof("constant tag"), p)
    ELSE LET tag == get_u8(d, p)
             q == p + 1
         IN  CASE tag = 0 -> Ok(Dummy, q)
               [] tag = 1 -> deserialize_utf8(d, q)
               [] tag = 3 -> deserialize_integer(d, q)
               [] tag = 4 -> deserialize_float(d, q)
               [] tag = 5 -> deserialize_long(d, q)
               [] tag = 6 -> deserialize_double(d, q)
               [] tag = 7 -> deserialize_classref(d, q)
               [] tag = 8 -> deserialize_string(d, q)
               [] tag = 9 -> deserialize_fieldref(d, q)
               [] tag = 10 -> deserialize_methodref(d, q)
               [] tag = 11 -> deserialize_interface_method_ref(d, q)
               [] tag = 15 -> deserialize_method_handle_ref(d, q)
               [] tag = 16 -> deserialize_method_type(d, q)
               [] tag = 18 -> deserialize_invoke_dynamic_info(d, q)
               [] OTHER -> Err(InvalidConstantType(tag), q)

\* Constant::deserialize
Constant_deserialize(d, p) ==
    IF ~require(d, p, 1) THEN Err(Eof("constant tag"), p)
    ELSE LET tag == get_u8(d, p)
             q == p + 1
         IN  CASE tag = 1 -> deserialize_utf8(d, q)
               [] tag = 3 -> deserialize_integer(d, q)
               [] tag = 4 -> deserialize_float(d, q)
               [] tag = 5 -> deserialize_long(d, q)
               [] tag = 6 -> deserialize_double(d, q)
               [] tag = 7 -> deserialize_classref(d, q)
               [] tag = 8 -> deserialize_string(d, q)
               [] tag = 9 -> deserialize_fieldref(d, q)
               [] tag = 10 -> deserialize_methodref(d, q)
               [] tag = 11 -> deserialize_interface_method_ref(d, q)
               [] tag = 15 -> deserialize_method_handle_ref(d, q)
               [] tag = 16 -> deserialize_method_type(d, q)
               [] tag = 18 -> deserialize_invoke_dynamic_info(d, q)
               [] OTHER -> Err(InvalidConstantType(tag), q)

(***************************************************************************)
(* Attribute and its parts (src/src/classes.rs)                            *)
(***************************************************************************)
ConstantValue(attribute_name, constant_value) ==
    [attr |-> "ConstantValue", attribute_name |-> attribute_name,
     constant_value |-> constant_value]

Code(attribute_name, max_stack, max_locals, code, exception_table, attributes) ==
    [attr |-> "Code", attribute_name |-> attribute_name, max_stack |-> max_stack,
     max_locals |-> max_locals, code |-> code, exception_table |-> exception_table,
     attributes |-> attributes]

StackMapTable(attribute_name, entries) ==
    [attr |-> "StackMapTable", attribute_name |-> attribute_name, entries |-> entries]

ExceptionTableRow(start_pc, end_pc, handler_pc, catch_type) ==
    [start_pc |-> start_pc, end_pc |-> end_pc, handler_pc |-> handler_pc,
     catch_type |-> catch_type]

SameFrame(offset_delta) == [frame |-> "SameFrame", offset_delta |-> offset_delta]

SameLocalsOneStackItemFrame(offset_delta, stack_item) ==
    [frame |-> "SameLocalsOneStackItemFrame", offset_delta |-> offset_delta,
     stack_item |-> stack_item]

SameLocalsOneStackItemFrameExtended(offset_delta, stack_item) ==
    [frame |-> "SameLocalsOneStackItemFrameExtended", offset_delta |-> offset_delta,
     stack_item |-> stack_item]

ChopFrame(offset_delta, num_absent_locals) ==
    [frame |-> "ChopFrame", offset_delta |-> offset_delta,
     num_absent_locals |-> num_absent_locals]

SameFrameExtended(offset_delta) == [frame |-> "SameFrameExtended", offset_delta |-> offset_delta]

AppendFrame(offset_delta, new_locals) ==
    [frame |-> "AppendFrame", offset_delta |-> offset_delta, new_locals |-> new_locals]

FullFrame(offset_delta, locals, stack_items) ==
    [frame |-> "FullFrame", offset_delta |-> offset_delta, locals |-> locals,
     stack_items |-> stack_items]

VerificationType(variant) == [vtype |-> variant]

Object(i) == [vtype |-> "Object", index |-> i]

Uninitialized(offset) == [vtype |-> "Uninitialized", offset |-> offset]

(***************************************************************************)
(* ClassLoaderError, the variants of the attribute decoder                 *)
(***************************************************************************)
InvalidConstantRef(cause) == [kind |-> "InvalidConstantRef", cause |-> cause]

InvalidAttributeType(constant) == [kind |-> "InvalidAttributeType", constant |-> constant]

InvalidStackFrameType(frame_type) == [kind |-> "InvalidStackFrameType", byte |-> frame_type]

InvalidVerificationType(type_id) == [kind |-> "InvalidVerificationType", byte |-> type_id]

UnknownAttributeType(type_name) == [kind |-> "UnknownAttributeType", type_name |-> type_name]

LengthMismatch(context, stated_length, inferred_length) ==
    [kind |-> "LengthMismatch", context |-> context, stated_length |-> stated_length,
     inferred_length |-> inferred_length]

\* the attribute names Attribute::deserialize matches, as UTF-8 bytes
NameConstantValue == <<67, 111, 110, 115, 116, 97, 110, 116, 86, 97, 108, 117, 101>>

NameCode == <<67, 111, 100, 101>>

NameStackMapTable == <<83, 116, 97, 99, 107, 77, 97, 112, 84, 97, 98, 108, 101>>

(***************************************************************************)
(* The attribute decoder                                                   *)
(***************************************************************************)
RECURSIVE Deserialize_deserialize(_, _, _)
RECURSIVE deserialize_multiple(_, _, _, _, _)
RECURSIVE deserialize_multiple_with_constants(_, _, _, _, _)
RECURSIVE Attribute_deserialize(_, _, _)

\* deserialize_multiple inserting each element at the front of the result
deserialize_multiple_reversed(D, count, d, p, res) ==
    IF count = 0 THEN Ok(res, p)
    ELSE LET e == Deserialize_deserialize(D, d, p)
         IN  IF ~e.ok THEN e
             ELSE deserialize_multiple(D, count - 1, d, e.pos, <<e.val>> \o res)

\* deserialize_multiple with the loop written 0..=count
deserialize_multiple_inclusive(D, count, d, p, res) ==
    LET e == Deserialize_deserialize(D, d, p)
    IN  IF ~e.ok THEN e
        ELSE IF count = 0 THEN Ok(Append(res, e.val), e.pos)
        ELSE deserialize_multiple(D, count - 1, d, e.pos, Append(res, e.val))

\* the loop of deserialize_multiple::<D>: count elements left, res those pushed
\* so far
deserialize_multiple(D, count, d, p, res) ==
    IF count = 0 THEN Ok(res, p)
    ELSE LET e == Deserialize_deserialize(D, d, p)
         IN  IF ~e.ok THEN e
             ELSE deserialize_multiple(D, count - 1, d, e.pos, Append(res, e.val))

\* VerificationType::deserialize with Long at 3 and Double at 4, the order of
\* the constant tags
VerificationType_deserialize_long_before_double(d, p) ==
    IF ~require(d, p, 1) THEN Err(Eof("verification type identifier"), p)
    ELSE LET type_id == get_u8(d, p)
             q == p + 1
         IN  CASE type_id = 0 -> Ok(VerificationType("Top"), q)
               [] type_id = 1 -> Ok(VerificationType("Integer"), q)
               [] type_id = 2 -> Ok(VerificationType("Float"), q)
               [] type_id = 3 -> Ok(VerificationType("Long"), q)
               [] type_id = 4 -> Ok(VerificationType("Double"), q)
               [] type_id = 5 -> Ok(VerificationType("Null"), q)
               [] type_id = 6 -> Ok(VerificationType("UninitializedThis"), q)
               [] type_id = 7 ->
                    LET i == deserialize_constant_index(d, q)
                    IN  IF i.ok THEN Ok(Object(i.val), i.pos) ELSE i
               [] type_id = 8 ->
                    IF ~require(d, q, 2) THEN Err(Eof("uninitialized variable offset"), q)
                    ELSE Ok(Uninitialized(get_u16_be(d, q)), q + 2)
               [] OTHER -> Err(InvalidVerificationType(type_id), q)

\* VerificationType::deserialize
VerificationType_deserialize(d, p) ==
    IF ~require(d, p, 1) THEN Err(Eof("verification type identifier"), p)
    ELSE LET type_id == get_u8(d, p)
             q == p + 1
         IN  CASE type_id = 0 -> Ok(VerificationType("Top"), q)
               [] type_id = 1 -> Ok(VerificationType("Integer"), q)
               [] type_id = 2 -> Ok(VerificationType("Float"), q)
               [] type_id = 3 -> Ok(VerificationType("Double"), q)
               [] type_id = 4 -> Ok(VerificationType("Long"), q)
               [] type_id = 5 -> Ok(VerificationType("Null"), q)
               [] type_id = 6 -> Ok(VerificationType("UninitializedThis"), q)
               [] type_id = 7 ->
                    LET i == deserialize_constant_index(d, q)
                    IN  IF i.ok THEN Ok(Object(i.val), i.pos) ELSE i
               [] type_id = 8 ->
                    IF ~require(d, q, 2) THEN Err(Eof("uninitialized variable offset"), q)
                    ELSE Ok(Uninitialized(get_u16_be(d, q)), q + 2)
               [] OTHER -> Err(InvalidVerificationType(type_id), q)

\* ExceptionTableRow::deserialize requiring the bytes of each field as it comes
\* to it
ExceptionTableRow_deserialize_field_by_field(d, p) ==
    IF ~require(d, p, 2) THEN Err(Eof("exception table row"), p)
    ELSE IF ~require(d, p + 2, 2) THEN Err(Eof("exception table row"), p + 2)
    ELSE IF ~require(d, p + 4, 2) THEN Err(Eof("exception table row"), p + 4)
    ELSE LET start_pc == get_u16_be(d, p)
             end_pc == get_u16_be(d, p + 2)
             handler_pc == get_u16_be(d, p + 4)
             catch_type == deserialize_constant_index(d, p + 6)
         IN  IF ~catch_type.ok THEN catch_type
             ELSE Ok(ExceptionTableRow(start_pc, end_pc, handler_pc, catch_type.val),
                     catch_type.pos)

\* ExceptionTableRow::deserialize
ExceptionTableRow_deserialize(d, p) ==
    IF ~require(d, p, 8) THEN Err(Eof("exception table row"), p)
    ELSE LET start_pc == get_u16_be(d, p)
             end_pc == get_u16_be(d, p + 2)
             handler_pc == get_u16_be(d, p + 4)
             catch_type == deserialize_constant_index(d, p + 6)
         IN  IF ~catch_type.ok THEN catch_type
             ELSE Ok(ExceptionTableRow(start_pc, end_pc, handler_pc, catch_type.val),
                     catch_type.pos)

\* StackMapFrame::deserialize with the second range written 64...128
StackMapFrame_deserialize_128_has_stack_item(d, p) ==
    IF ~require(d, p, 1) THEN Err(Eof("stack map frame type"), p)
    ELSE LET frame_type == get_u8(d, p)
             q == p + 1
         IN  CASE frame_type >= 0 /\ frame_type <= 63 -> Ok(SameFrame(frame_type), q)
               [] frame_type >= 64 /\ frame_type <= 128 ->
                    LET stack_item == VerificationType_deserialize(d, q)
                    IN  IF ~stack_item.ok THEN stack_item
                        ELSE Ok(SameLocalsOneStackItemFrame(frame_type - 64, stack_item.val),
                                stack_item.pos)
               [] frame_type = 247 ->
                    IF ~require(d, q, 2) THEN Err(Eof("extended stack frame offset"), q)
                    ELSE LET offset_delta == get_u16_be(d, q)
                             stack_item == VerificationType_deserialize(d, q + 2)
                         IN  IF ~stack_item.ok THEN stack_item
                             ELSE Ok(SameLocalsOneStackItemFrameExtended(offset_delta,
                                                                         stack_item.val),
                                     stack_item.pos)
               [] frame_type >= 248 /\ frame_type <= 250 ->
                    IF ~require(d, q, 2) THEN Err(Eof("chop frame offset"), q)
                    ELSE Ok(ChopFrame(get_u16_be(d, q), 251 - frame_type), q + 2)
               [] frame_type = 251 ->
                    IF ~require(d, q, 2)
                    THEN Err(Eof("extended same-frame stack frame offset"), q)
                    ELSE Ok(SameFrameExtended(get_u16_be(d, q)), q + 2)
               [] frame_type >= 252 /\ frame_type <= 254 ->
                    IF ~require(d, q, 2) THEN Err(Eof("append frame offset"), q)
                    ELSE LET offset_delta == get_u16_be(d, q)
                             num_locals == frame_type - 251
                             locals == deserialize_multiple("VerificationType",
                                                            num_locals, d, q + 2, <<>>)
                         IN  IF ~locals.ok THEN locals
                             ELSE Ok(AppendFrame(offset_delta, locals.val), locals.pos)
               [] frame_type = 255 ->
                    IF ~require(d, q, 2) THEN Err(Eof("full stack frame offset"), q)
                    ELSE IF ~require(d, q + 2, 2)
                    THEN Err(Eof("full stack frame locals count"), q + 2)
                    ELSE LET offset_delta == get_u16_be(d, q)
                             num_locals == get_u16_be(d, q + 2)
                             locals == deserialize_multiple("VerificationType",
                                                            num_locals, d, q + 4, <<>>)
                         IN  IF ~locals.ok THEN locals
                             ELSE IF ~require(d, locals.pos, 2)
                             THEN Err(Eof("full stack frame stack item count"), locals.pos)
                             ELSE LET num_stack_items == get_u16_be(d, locals.pos)
                                      stack_items ==
                                          deserialize_multiple("VerificationType",
                                                               num_stack_items, d,
                                                               locals.pos + 2, <<>>)
                                  IN  IF ~stack_items.ok THEN stack_items
                                      ELSE Ok(FullFrame(offset_delta, locals.val,
                                                        stack_items.val),
                                              stack_items.pos)
               [] OTHER -> Err(InvalidStackFrameType(frame_type), q)

\* StackMapFrame::deserialize with the two lists of a full frame changed over
StackMapFrame_deserialize_stack_items_first(d, p) ==
    IF ~require(d, p, 1) THEN Err(Eof("stack map frame type"), p)
    ELSE LET frame_type == get_u8(d, p)
             q == p + 1
         IN  CASE frame_type >= 0 /\ frame_type <= 63 -> Ok(SameFrame(frame_type), q)
               [] frame_type >= 64 /\ frame_type <= 127 ->
                    LET stack_item == VerificationType_deserialize(d, q)
                    IN  IF ~stack_item.ok THEN stack_item
                        ELSE Ok(SameLocalsOneStackItemFrame(frame_type - 64, stack_item.val),
                                stack_item.pos)
               [] frame_type = 247 ->
                    IF ~require(d, q, 2) THEN Err(Eof("extended stack frame offset"), q)
                    ELSE LET offset_delta == get_u16_be(d, q)
                             stack_item == VerificationType_deserialize(d, q + 2)
                         IN  IF ~stack_item.ok THEN stack_item
                             ELSE Ok(SameLocalsOneStackItemFrameExtended(offset_delta,
                                                                         stack_item.val),
                                     stack_item.pos)
               [] frame_type >= 248 /\ frame_type <= 250 ->
                    IF ~require(d, q, 2) THEN Err(Eof("chop frame offset"), q)
                    ELSE Ok(ChopFrame(get_u16_be(d, q), 251 - frame_type), q + 2)
               [] frame_type = 251 ->
                    IF ~require(d, q, 2)
                    THEN Err(Eof("extended same-frame stack frame offset"), q)
                    ELSE Ok(SameFrameExtended(get_u16_be(d, q)), q + 2)
               [] frame_type >= 252 /\ frame_type <= 254 ->
                    IF ~require(d, q, 2) THEN Err(Eof("append frame offset"), q)
                    ELSE LET offset_delta == get_u16_be(d, q)
                             num_locals == frame_type - 251
                             locals == deserialize_multiple("VerificationType",
                                                            num_locals, d, q + 2, <<>>)
                         IN  IF ~locals.ok THEN locals
                             ELSE Ok(AppendFrame(offset_delta, locals.val), locals.pos)
               [] frame_type = 255 ->
                    IF ~require(d, q, 2) THEN Err(Eof("full stack frame offset"), q)
                    ELSE IF ~require(d, q + 2, 2)
                    THEN Err(Eof("full stack frame locals count"), q + 2)
                    ELSE LET offset_delta == get_u16_be(d, q)
                             num_locals == get_u16_be(d, q + 2)
                             locals == deserialize_multiple("VerificationType",
                                                            num_locals, d, q + 4, <<>>)
                         IN  IF ~locals.ok THEN locals
                             ELSE IF ~require(d, locals.pos, 2)
                             THEN Err(Eof("full stack frame stack item count"), locals.pos)
                             ELSE LET num_stack_items == get_u16_be(d, locals.pos)
                                      stack_items ==
                                          deserialize_multiple("VerificationType",
                                                               num_stack_items, d,
                                                               locals.pos + 2, <<>>)
                                  IN  IF ~stack_items.ok THEN stack_items
                                      ELSE Ok(FullFrame(offset_delta, stack_items.val,
                                                        locals.val),
                                              stack_items.pos)
               [] OTHER -> Err(InvalidStackFrameType(frame_type), q)

\* StackMapFrame::deserialize
StackMapFrame_deserialize(d, p) ==
    IF ~require(d, p, 1) THEN Err(Eof("stack map frame type"), p)
    ELSE LET frame_type == get_u8(d, p)
             q == p + 1
         IN  CASE frame_type >= 0 /\ frame_type <= 63 -> Ok(SameFrame(frame_type), q)
               [] frame_type >= 64 /\ frame_type <= 127 ->
                    LET stack_item == VerificationType_deserialize(d, q)
                    IN  IF ~stack_item.ok THEN stack_item
                        ELSE Ok(SameLocalsOneStackItemFrame(frame_type - 64, stack_item.val),
                                stack_item.pos)
               [] frame_type = 247 ->
                    IF ~require(d, q, 2) THEN Err(Eof("extended stack frame offset"), q)
                    ELSE LET offset_delta == get_u16_be(d, q)
                             stack_item == VerificationType_deserialize(d, q + 2)
                         IN  IF ~stack_item.ok THEN stack_item
                             ELSE Ok(SameLocalsOneStackItemFrameExtended(offset_delta,
                                                                         stack_item.val),
                                     stack_item.pos)
               [] frame_type >= 248 /\ frame_type <= 250 ->
                    IF ~require(d, q, 2) THEN Err(Eof("chop frame offset"), q)
                    ELSE Ok(ChopFrame(get_u16_be(d, q), 251 - frame_type), q + 2)
               [] frame_type = 251 ->
                    IF ~require(d, q, 2)
                    THEN Err(Eof("extended same-frame stack frame offset"), q)
                    ELSE Ok(SameFrameExtended(get_u16_be(d, q)), q + 2)
               [] frame_type >= 252 /\ frame_type <= 254 ->
                    IF ~require(d, q, 2) THEN Err(Eof("append frame offset"), q)
                    ELSE LET offset_delta == get_u16_be(d, q)
                             num_locals == frame_type - 251
                             locals == deserialize_multiple("VerificationType",
                                                            num_locals, d, q + 2, <<>>)
                         IN  IF ~locals.ok THEN locals
                             ELSE Ok(AppendFrame(offset_delta, locals.val), locals.pos)
               [] frame_type = 255 ->
                    IF ~require(d, q, 2) THEN Err(Eof("full stack frame offset"), q)
                    ELSE IF ~require(d, q + 2, 2)
                    THEN Err(Eof("full stack frame locals count"), q + 2)
                    ELSE LET offset_delta == get_u16_be(d, q)
                             num_locals == get_u16_be(d, q + 2)
                             locals == deserialize_multiple("VerificationType",
                                                            num_locals, d, q + 4, <<>>)
                         IN  IF ~locals.ok THEN locals
                             ELSE IF ~require(d, locals.pos, 2)
                             THEN Err(Eof("full stack frame stack item count"), locals.pos)
                             ELSE LET num_stack_items == get_u16_be(d, locals.pos)
                                      stack_items ==
                                          deserialize_multiple("VerificationType",
                                                               num_stack_items, d,
                                                               locals.pos + 2, <<>>)
                                  IN  IF ~stack_items.ok THEN stack_items
                                      ELSE Ok(FullFrame(offset_delta, locals.val,
                                                        stack_items.val),
                                              stack_items.pos)
               [] OTHER -> Err(InvalidStackFrameType(frame_type), q)

\* D::deserialize for the implementations of the trait Deserialize that
\* deserialize_multiple is used at
Deserialize_deserialize(D, d, p) ==
    CASE D = "VerificationType" -> VerificationType_deserialize(d, p)
      [] D = "ExceptionTableRow" -> ExceptionTableRow_deserialize(d, p)
      [] D = "StackMapFrame" -> StackMapFrame_deserialize(d, p)

\* deserialize_multiple_with_constants keeping what decoded before the first
\* element that fails
deserialize_multiple_with_constants_best_effort(count, d, p, constant_pool, res) ==
    IF count = 0 THEN Ok(res, p)
    ELSE LET e == Attribute_deserialize(d, p, constant_pool)
         IN  IF ~e.ok THEN Ok(res, p)
             ELSE deserialize_multiple_with_constants(count - 1, d, e.pos, constant_pool,
                                                      Append(res, e.val))

\* the loop of deserialize_multiple_with_constants, at D = Attribute
deserialize_multiple_with_constants(count, d, p, constant_pool, res) ==
    IF count = 0 THEN Ok(res, p)
    ELSE LET e == Attribute_deserialize(d, p, constant_pool)
         IN  IF ~e.ok THEN e
             ELSE deserialize_multiple_with_constants(count - 1, d, e.pos, constant_pool,
                                                      Append(res, e.val))

\* deserialize_constant_value reading the index before it looks at the length
deserialize_constant_value_read_first(attribute_name, length, d, p) ==
    LET constant_value == deserialize_constant_index(d, p)
    IN  IF ~constant_value.ok THEN constant_value
        ELSE IF length = <<0, 2>>
        THEN Ok(ConstantValue(attribute_name, constant_value.val), constant_value.pos)
        ELSE Err(LengthMismatch("ConstantValue attribute", length, <<0, 2>>),
                 constant_value.pos)

\* deserialize_constant_value taking the declared length as it comes
deserialize_constant_value_any_length(attribute_name, length, d, p) ==
    LET constant_value == deserialize_constant_index(d, p)
    IN  IF ~constant_value.ok THEN constant_value
        ELSE Ok(ConstantValue(attribute_name, constant_value.val), constant_value.pos)

deserialize_constant_value(attribute_name, length, d, p) ==
    IF length = <<0, 2>>
    THEN LET constant_value == deserialize_constant_index(d, p)
         IN  IF ~constant_value.ok THEN constant_value
             ELSE Ok(ConstantValue(attribute_name, constant_value.val), constant_value.pos)
    ELSE Err(LengthMismatch("ConstantValue attribute", length, <<0, 2>>), p)

\* check_length accepting a body shorter than declared
check_length_at_most(context, declared_length, initial_bytes_remaining, d, p, attribute) ==
    LET actual_length == AsU32(initial_bytes_remaining - remaining(d, p))
    IN  IF \/ declared_length[1] < actual_length[1]
           \/ declared_length[1] = actual_length[1] /\ declared_length[2] < actual_length[2]
        THEN Err(LengthMismatch(context, declared_length, actual_length), p)
        ELSE Ok(attribute, p)

\* the end of deserialize_code and deserialize_stack_map_table: the actual length
\* against the declared one
check_length(context, declared_length, initial_bytes_remaining, d, p, attribute) ==
    LET actual_length == AsU32(initial_bytes_remaining - remaining(d, p))
    IN  IF actual_length # declared_length
        THEN Err(LengthMismatch(context, declared_length, actual_length), p)
        ELSE Ok(attribute, p)

\* deserialize_code_tables measuring the actual length from the exception table on
deserialize_code_tables_short(attribute_name, constant_pool, declared_length, d, p0, p, max_stack, max_locals, code) ==
    IF ~require(d, p, 2) THEN Err(Eof("Code attribute exception table length"), p)
    ELSE LET exception_row_count == get_u16_be(d, p)
             exception_table == deserialize_multiple("ExceptionTableRow",
                                                     exception_row_count, d, p + 2, <<>>)
         IN  IF ~exception_table.ok THEN exception_table
             ELSE IF ~require(d, exception_table.pos, 2)
             THEN Err(Eof("Code attribute subattribute count"), exception_table.pos)
             ELSE LET attributes_count == get_u16_be(d, exception_table.pos)
                      attributes ==
                          deserialize_multiple_with_constants(attributes_count, d,
                                                              exception_table.pos + 2,
                                                              constant_pool, <<>>)
                  IN  IF ~attributes.ok THEN attributes
                      ELSE check_length("Code attribute", declared_length,
                                        remaining(d, p), d, attributes.pos,
                                        Code(attribute_name, max_stack, max_locals, code,
                                             exception_table.val, attributes.val))

\* deserialize_code from the exception table on: p0 is the position of the body's
\* first byte, p that of the exception table length
deserialize_code_tables(attribute_name, constant_pool, declared_length, d, p0, p, max_stack, max_locals, code) ==
    IF ~require(d, p, 2) THEN Err(Eof("Code attribute exception table length"), p)
    ELSE LET exception_row_count == get_u16_be(d, p)
             exception_table == deserialize_multiple("ExceptionTableRow",
                                                     exception_row_count, d, p + 2, <<>>)
         IN  IF ~exception_table.ok THEN exception_table
             ELSE IF ~require(d, exception_table.pos, 2)
             THEN Err(Eof("Code attribute subattribute count"), exception_table.pos)
             ELSE LET attributes_count == get_u16_be(d, exception_table.pos)
                      attributes ==
                          deserialize_multiple_with_constants(attributes_count, d,
                                                              exception_table.pos + 2,
                                                              constant_pool, <<>>)
                  IN  IF ~attributes.ok THEN attributes
                      ELSE check_length("Code attribute", declared_length,
                                        remaining(d, p0), d, attributes.pos,
                                        Code(attribute_name, max_stack, max_locals, code,
                                             exception_table.val, attributes.val))

deserialize_code(attribute_name, constant_pool, declared_length, d, p) ==
    IF ~require(d, p, 2) THEN Err(Eof("Code attribute max stack size"), p)
    ELSE IF ~require(d, p + 2, 2) THEN Err(Eof("Code attribute max locals count"), p + 2)
    ELSE IF ~require(d, p + 4, 4) THEN Err(Eof("Code attribute inner length"), p + 4)
    ELSE LET max_stack == get_u16_be(d, p)
             max_locals == get_u16_be(d, p + 2)
             code_length == get_u32_be(d, p + 4)
         IN  IF LessThanU32(remaining(d, p + 8), code_length)
             THEN Err(Eof("Code attribute code body"), p + 8)
             ELSE LET n == AsUsize(code_length)
                  IN  deserialize_code_tables(attribute_name, constant_pool, declared_length,
                                              d, p, p + 8 + n, max_stack, max_locals,
                                              SubSeq(d, p + 9, p + 8 + n))

\* deserialize_stack_map_table holding the declared length against the bytes
\* left before it reads the entries
deserialize_stack_map_table_length_before_entries(attribute_name, declared_length, d, p) ==
    IF LessThanU32(remaining(d, p), declared_length)
    THEN Err(LengthMismatch("StackMapTable attribute", declared_length,
                            AsU32(remaining(d, p))), p)
    ELSE IF ~require(d, p, 2) THEN Err(Eof("stack map table entry count"), p)
    ELSE LET num_entries == get_u16_be(d, p)
             entries == deserialize_multiple("StackMapFrame", num_entries, d,
                                             p + 2, <<>>)
         IN  IF ~entries.ok THEN entries
             ELSE check_length("StackMapTable attribute", declared_length, remaining(d, p),
                               d, entries.pos, StackMapTable(attribute_name, entries.val))

deserialize_stack_map_table(attribute_name, declared_length, d, p) ==
    IF ~require(d, p, 2) THEN Err(Eof("stack map table entry count"), p)
    ELSE LET num_entries == get_u16_be(d, p)
             entries == deserialize_multiple("StackMapFrame", num_entries, d,
                                             p + 2, <<>>)
         IN  IF ~entries.ok THEN entries
             ELSE check_length("StackMapTable attribute", declared_length, remaining(d, p),
                               d, entries.pos, StackMapTable(attribute_name, entries.val))

\* s starts with prefix
StartsWith(s, prefix) == Len(s) >= Len(prefix) /\ SubSeq(s, 1, Len(prefix)) = prefix

\* deserialize_attribute_body matching the name by its first bytes
deserialize_attribute_body_by_prefix(attribute_type_index, attribute_type, constant_pool, d, p) ==
    IF ~require(d, p, 4) THEN Err(Eof("attribute length"), p)
    ELSE LET length == get_u32_be(d, p)
             q == p + 4
         IN  CASE StartsWith(attribute_type, NameConstantValue) ->
                    deserialize_constant_value(attribute_type_index, length, d, q)
               [] StartsWith(attribute_type, NameCode) ->
                    deserialize_code(attribute_type_index, constant_pool, length, d, q)
               [] StartsWith(attribute_type, NameStackMapTable) ->
                    deserialize_stack_map_table(attribute_type_index, length, d, q)
               [] OTHER -> Err(UnknownAttributeType(attribute_type), q)

\* Attribute::deserialize from the length field on
deserialize_attribute_body(attribute_type_index, attribute_type, constant_pool, d, p) ==
    IF ~require(d, p, 4) THEN Err(Eof("attribute length"), p)
    ELSE LET length == get_u32_be(d, p)
             q == p + 4
         IN  CASE attribute_type = NameConstantValue ->
                    deserialize_constant_value(attribute_type_index, length, d, q)
               [] attribute_type = NameCode ->
                    deserialize_code(attribute_type_index, constant_pool, length, d, q)
               [] attribute_type = NameStackMapTable ->
                    deserialize_stack_map_table(attribute_type_index, length, d, q)
               [] OTHER -> Err(UnknownAttributeType(attribute_type), q)

\* Attribute::deserialize requiring the length field before it resolves the name
Attribute_deserialize_length_first(d, p, constant_pool) ==
    LET attribute_type_index == deserialize_constant_index(d, p)
    IN  IF ~attribute_type_index.ok THEN attribute_type_index
        ELSE IF ~require(d, attribute_type_index.pos, 4)
        THEN Err(Eof("attribute length"), attribute_type_index.pos)
        ELSE LET attribute_type_ref == lookup(attribute_type_index.val, constant_pool)
                 q == attribute_type_index.pos
             IN  IF ~attribute_type_ref.ok
                 THEN Err(InvalidConstantRef(attribute_type_ref.err), q)
                 ELSE IF attribute_type_ref.val.type # "Utf8"
                 THEN Err(InvalidAttributeType(attribute_type_ref.val), q)
                 ELSE deserialize_attribute_body(attribute_type_index.val,
                                                 attribute_type_ref.val.text,
                                                 constant_pool, d, q)

\* Attribute::deserialize recording the first pool index that holds the name's
\* text
Attribute_deserialize_first_index_of_name(d, p, constant_pool) ==
    LET attribute_type_index == deserialize_constant_index(d, p)
    IN  IF ~attribute_type_index.ok THEN attribute_type_index
        ELSE LET attribute_type_ref == lookup(attribute_type_index.val, constant_pool)
                 q == attribute_type_index.pos
             IN  IF ~attribute_type_ref.ok
                 THEN Err(InvalidConstantRef(attribute_type_ref.err), q)
                 ELSE IF attribute_type_ref.val.type # "Utf8"
                 THEN Err(InvalidAttributeType(attribute_type_ref.val), q)
                 ELSE deserialize_attribute_body(
                          CHOOSE i \in 1..Len(constant_pool) :
                              /\ constant_pool[i] = attribute_type_ref.val
                              /\ \A j \in 1..(i - 1) : constant_pool[j] # attribute_type_ref.val,
                          attribute_type_ref.val.text, constant_pool, d, q)

\* Attribute::deserialize
Attribute_deserialize(d, p, constant_pool) ==
    LET attribute_type_index == deserialize_constant_index(d, p)
    IN  IF ~attribute_type_index.ok THEN attribute_type_index
        ELSE LET attribute_type_ref == lookup(attribute_type_index.val, constant_pool)
                 q == attribute_type_index.pos
             IN  IF ~attribute_type_ref.ok
                 THEN Err(InvalidConstantRef(attribute_type_ref.err), q)
                 ELSE IF attribute_type_ref.val.type # "Utf8"
                 THEN Err(InvalidAttributeType(attribute_type_ref.val), q)
                 ELSE deserialize_attribute_body(attribute_type_index.val,
                                                 attribute_type_ref.val.text,
                                                 constant_pool, d, q)

(***************************************************************************)
(* Attribute::deserialize call by call.  A Code attribute holds attributes, *)
(* so Attribute::deserialize calls itself through deserialize_code and      *)
(* deserialize_multiple_with_constants; stack holds one frame for each      *)
(* deserialize_code that has reached its loop over the sub-attributes.      *)
(***************************************************************************)
\* a call of deserialize_code that has entered its loop over the sub-attributes:
\* count of them are still to come, res holds those decoded
CodeFrame(attribute_name, declared_length, p0, max_stack, max_locals, code, exception_table, count) ==
    [attribute_name |-> attribute_name, declared_length |-> declared_length, p0 |-> p0,
     max_stack |-> max_stack, max_locals |-> max_locals, code |-> code,
     exception_table |-> exception_table, count |-> count, res |-> <<>>]

IsCodeFrame(v) == "count" \in DOMAIN v

\* Attribute::deserialize at p gets as far as calling deserialize_code
calls_deserialize_code(d, p, constant_pool) ==
    LET attribute_type_index == deserialize_constant_index(d, p)
    IN  /\ attribute_type_index.ok
        /\ LET attribute_type_ref == lookup(attribute_type_index.val, constant_pool)
           IN  /\ attribute_type_ref.ok
               /\ attribute_type_ref.val.type = "Utf8"
               /\ attribute_type_ref.val.text = NameCode
        /\ require(d, p + 2, 4)

\* deserialize_code from its first byte at p up to the sub-attribute count
deserialize_code_head(attribute_name, declared_length, d, p) ==
    IF ~require(d, p, 2) THEN Err(Eof("Code attribute max stack size"), p)
    ELSE IF ~require(d, p + 2, 2) THEN Err(Eof("Code attribute max locals count"), p + 2)
    ELSE IF ~require(d, p + 4, 4) THEN Err(Eof("Code attribute inner length"), p + 4)
    ELSE LET code_length == get_u32_be(d, p + 4)
         IN  IF LessThanU32(remaining(d, p + 8), code_length)
             THEN Err(Eof("Code attribute code body"), p + 8)
             ELSE LET n == AsUsize(code_length)
                      q == p + 8 + n
                  IN  IF ~require(d, q, 2)
                      THEN Err(Eof("Code attribute exception table length"), q)
                      ELSE LET exception_table ==
                                   deserialize_multiple("ExceptionTableRow", get_u16_be(d, q),
                                                        d, q + 2, <<>>)
                           IN  IF ~exception_table.ok THEN exception_table
                               ELSE IF ~require(d, exception_table.pos, 2)
                               THEN Err(Eof("Code attribute subattribute count"),
                                        exception_table.pos)
                               ELSE Ok(CodeFrame(attribute_name, declared_length, p,
                                                 get_u16_be(d, p), get_u16_be(d, p + 2),
                                                 SubSeq(d, p + 9, p + 8 + n),
                                                 exception_table.val,
                                                 get_u16_be(d, exception_table.pos)),
                                       exception_table.pos + 2)

\* one call of Attribute::deserialize at p: a Code attribute up to the loop over
\* its sub-attributes, any other attribute whole
attribute_call(d, p, constant_pool) ==
    IF calls_deserialize_code(d, p, constant_pool)
    THEN deserialize_code_head(get_u16_be(d, p), get_u32_be(d, p + 2), d, p + 6)
    ELSE Attribute_deserialize(d, p, constant_pool)

\* the end of the innermost deserialize_code: the length check
code_return(d, p, top) ==
    check_length("Code attribute", top.declared_length, remaining(d, top.p0), d, p,
                 Code(top.attribute_name, top.max_stack, top.max_locals, top.code,
                      top.exception_table, top.res))

\* res.push(attribute) in the loop of the innermost of the callers, one fewer to
\* come
push(callers, attribute) ==
    LET top == callers[Len(callers)]
    IN  [callers EXCEPT ![Len(callers)] = [top EXCEPT !.count = top.count - 1,
                                                      !.res = Append(top.res, attribute)]]

\* the calls under way after a call made under callers came to outcome: an
\* error leaves them all through the ? of each, a Code attribute at its loop is
\* one more, an attribute goes to the loop that called
stack_after(callers, outcome) ==
    IF ~outcome.ok THEN <<>>
    ELSE IF IsCodeFrame(outcome.val) THEN Append(callers, outcome.val)
    ELSE IF callers = <<>> THEN <<>>
    ELSE push(callers, outcome.val)

\* the loop trying the element again after an error
op_after_retry(callers, outcome) ==
    IF outcome.ok /\ ~IsCodeFrame(outcome.val) /\ callers = <<>> THEN "decoded"
    ELSE "decoding"

\* the decode is over with an error, or with an attribute that nothing called
op_after(callers, outcome) ==
    IF ~outcome.ok THEN "decoded"
    ELSE IF IsCodeFrame(outcome.val) THEN "decoding"
    ELSE IF callers = <<>> THEN "decoded"
    ELSE "decoding"

(***************************************************************************)
(* PartialEq.  Constant and ClassLoaderError derive PartialEq, which       *)
(* compares variant by variant and field by field with the == of the field *)
(* type; for f32 and f64 that is the IEEE comparison.                      *)
(***************************************************************************)
f32_is_nan(f) == f.exponent = 255 /\ f.fraction # <<0, 0>>

f64_is_nan(f) == f.exponent = 2047 /\ f.fraction # <<0, 0, 0, 0>>

\* f32 == f32: no NaN equals anything, the two zeros are equal
f32_eq(a, b) ==
    /\ ~f32_is_nan(a)
    /\ ~f32_is_nan(b)
    /\ \/ a = b
       \/ /\ a.exponent = 0 /\ a.fraction = <<0, 0>>
          /\ b.exponent = 0 /\ b.fraction = <<0, 0>>

\* f64 == f64
f64_eq(a, b) ==
    /\ ~f64_is_nan(a)
    /\ ~f64_is_nan(b)
    /\ \/ a = b
       \/ /\ a.exponent = 0 /\ a.fraction = <<0, 0, 0, 0>>
          /\ b.exponent = 0 /\ b.fraction = <<0, 0, 0, 0>>

\* #[derive(PartialEq)] on Constant
Constant_eq(a, b) ==
    /\ a.type = b.type
    /\ CASE a.type = "Float" -> f32_eq(a.value, b.value)
         [] a.type = "Double" -> f64_eq(a.value, b.value)
         [] OTHER -> a = b

\* #[derive(PartialEq)] on ClassLoaderError; InvalidAttributeType holds a
\* Constant
ClassLoaderError_eq(a, b) ==
    /\ a.kind = b.kind
    /\ IF a.kind = "InvalidAttributeType" THEN Constant_eq(a.constant, b.constant)
       ELSE a = b

\* Result<D, ClassLoaderError> == Result<D, ClassLoaderError>, D being Constant
\* (PartialEq as above) or Attribute (PartialEq and Eq, no float inside)
Result_eq(a, b) ==
    /\ a.ok = b.ok
    /\ IF a.ok
       THEN IF "type" \in DOMAIN a.val /\ "type" \in DOMAIN b.val
            THEN Constant_eq(a.val, b.val)
            ELSE a.val = b.val
       ELSE ClassLoaderError_eq(a.err, b.err)

(***************************************************************************)
(* Inputs.  The decoders are pure functions of the input bytes and the     *)
(* pool, so the initial states enumerate inputs and each action applies    *)
(* one decoder to the input of its state.                                  *)
(***************************************************************************)
MaxPoolLen == 3

MaxPayload == 9

MaxCodeLen == 1

MaxRows == 1

MaxFrames == 2

MaxSubAttrs == 2

MaxDepth == 1

MaxAttrLen == 44
MaxNesting == 3

Prefixes(s) == {SubSeq(s, 1, k) : k \in 0..Len(s)}

RECURSIVE Flatten(_)
Flatten(ss) == IF ss = <<>> THEN <<>> ELSE Head(ss) \o Flatten(Tail(ss))

RECURSIVE SeqsUpTo(_, _)
SeqsUpTo(S, k) ==
    IF k = 0 THEN {<<>>}
    ELSE LET T == SeqsUpTo(S, k - 1) IN T \cup {Append(t, x) : t \in T, x \in S}

U16(n) == <<n \div 256, n % 256>>

U32(n) == <<0, 0>> \o U16(n)

\* ---- pools and indices for lookup
NameExceptions == <<69, 120, 99, 101, 112, 116, 105, 111, 110, 115>>

NameLowerCode == <<99, 111, 100, 101>>

NameCodeX == <<67, 111, 100, 101, 88>>

PoolEntries ==
    {Utf8(NameCode), Integer(<<0, 42>>), Long(<<0, 0, 0, 4>>), Dummy, StringRef(1)}

Pools == SeqsUpTo(PoolEntries, MaxPoolLen)

Indices == 0..(MaxPoolLen + 1) \cup {255, 256, 65535}

\* ---- inputs of the constant decoder
Pattern(n) == [i \in 1..n |-> (i * 67 + 104) % 256]

Filled(b, n) == [i \in 1..n |-> b]

Utf8Payloads ==
    { <<0, 5, 72, 101, 108, 108, 111>>,   \* "Hello"
      <<0, 0>>,                           \* ""
      <<0, 2, 195, 40>>,                  \* invalid 2-byte sequence
      <<0, 3, 195, 40>>,                  \* the same, one byte short of its length
      <<0, 2, 195, 169, 33>>,             \* U+00E9, then a byte after the entry
      <<0, 4, 65, 226, 130, 172>>,        \* "A" U+20AC
      <<0, 4, 240, 159, 152, 128>>,       \* U+1F600
      <<0, 3, 237, 160, 128>>,            \* a surrogate
      <<0, 2, 192, 128>>,                 \* overlong NUL
      <<0, 3, 65, 66, 128>>,              \* valid text, then a lone continuation
      <<0, 1, 195>>,                      \* a sequence cut by the length field
      <<0, 4, 244, 144, 128, 128>> }      \* above U+10FFFF

\* bit patterns of special f32 and f64 values
FloatPayloads ==
    { <<255, 128, 0, 1>>,                 \* f32: a signaling NaN
      <<127, 128, 0, 0>>,                 \* f32: +infinity
      <<128, 0, 0, 0>>,                   \* f32: -0
      <<0, 0, 0, 1>>,                     \* f32: the least subnormal
      <<127, 240, 0, 0, 0, 0, 0, 0>>,     \* f64: +infinity
      <<255, 248, 0, 0, 0, 0, 0, 1>>,     \* f64: a quiet NaN with a payload
      <<127, 240, 0, 0, 0, 0, 0, 1>>,     \* f64: a signaling NaN
      <<128, 0, 0, 0, 0, 0, 0, 0>> }      \* f64: -0

Payloads ==
    {Pattern(MaxPayload), Filled(0, MaxPayload), Filled(255, MaxPayload),
     <<255, 192, 0, 1>>, <<127, 160, 0, 0, 0, 0, 0, 1>>}
    \cup FloatPayloads \cup Utf8Payloads

Tails == UNION {Prefixes(t) : t \in Payloads}

ShortTails == UNION {Prefixes(t) : t \in {<<0, 1>>, <<255>>}}

KnownTags == 0..19

ConstantInputs ==
    {<<>>}
    \cup {<<t>> \o tail : t \in 0..255, tail \in ShortTails}
    \cup {<<t>> \o tail : t \in KnownTags, tail \in Tails}
    \cup {<<15, k>> \o rest : k \in 0..255, rest \in Prefixes(<<18, 52, 86>>)}

\* ---- inputs of the attribute decoder
NamePool ==
    << Utf8(NameConstantValue), Utf8(NameCode), Utf8(NameStackMapTable), Utf8(NameCode),
       Utf8(NameExceptions), Utf8(NameLowerCode), Utf8(<<>>), Integer(<<0, 42>>),
       Long(<<0, 0, 5, 57>>), Dummy, StringRef(2), Float(f32_from_bits(<<16608, 0>>)),
       MethodHandleRef(MethodHandle("GetField", 2)), Utf8(NameCodeX) >>

SmallPool == <<Long(<<0, 0, 0, 4>>), Dummy, Utf8(NameCode), Utf8(NameConstantValue)>>

AttributePools == {NamePool, SmallPool, <<>>}

IndicesOf(pool, name) == {i \in 1..Len(pool) : pool[i] = Utf8(name)}

\* one attribute: name index, declared length (4 bytes), body
Attr(name_index, declared, body) == U16(name_index) \o declared \o body

\* the declared lengths tried for a body of n bytes
Declared(n) == {U32(n), U32(n + 1)} \cup (IF n > 0 THEN {U32(n - 1)} ELSE {})

FrameBytes ==
    { <<0>>, <<64, 7, 0, 5>>, <<200>>, <<64, 9>>, <<252, 0, 1, 8, 0, 2>>,
      <<255, 0, 1, 0, 1, 2, 0, 0>> }

StackMapBodies ==
    {U16(Len(fs)) \o Flatten(fs) : fs \in SeqsUpTo(FrameBytes, MaxFrames)}

ConstantValueBodies == {U16(4660)}

RowBytes == <<0, 1, 0, 2, 0, 3, 0, 4>>

CodeBody(n, r, subs) ==
    U16(n) \o U16(r) \o U32(n) \o Pattern(n) \o U16(r) \o Flatten([i \in 1..r |-> RowBytes])
           \o U16(Len(subs)) \o Flatten(subs)

\* complete attributes placed inside a Code attribute, nested to depth k; a
\* nested Code attribute is named by the first Code entry of the pool
RECURSIVE SubAttrs(_, _)
SubAttrs(pool, k) ==
    LET cv == IndicesOf(pool, NameConstantValue)
        smt == IndicesOf(pool, NameStackMapTable)
        code == IndicesOf(pool, NameCode)
        other == IndicesOf(pool, NameExceptions)
    IN  {Attr(i, U32(2), U16(4660)) : i \in cv}
        \cup {Attr(i, U32(3), U16(4660)) : i \in cv}
        \cup {Attr(i, U32(3), <<0, 1, 0>>) : i \in smt}
        \cup {Attr(i, U32(0), <<>>) : i \in other}
        \cup (IF k = 0 THEN {}
              ELSE {Attr(i, U32(12 + Len(sub)), CodeBody(0, 0, <<sub>>)) :
                        i \in {j \in code : \A j2 \in code : j <= j2},
                        sub \in SubAttrs(pool, k - 1)})

\* Code bodies that fit an attribute of MaxAttrLen bytes
CodeBodies(pool) ==
    {b \in {CodeBody(n, r, subs) : n \in 0..MaxCodeLen, r \in 0..MaxRows,
                     subs \in SeqsUpTo(SubAttrs(pool, MaxDepth), MaxSubAttrs)} :
        6 + Len(b) <= MaxAttrLen}

\* every name index (valid or not) in front of a short body
NameProbes(pool) ==
    {Attr(i, declared, body) : i \in 0..(Len(pool) + 1) \cup {256, 65535},
                               declared \in {U32(0), U32(2), <<255, 255, 255, 255>>},
                               body \in {<<>>, <<0, 1>>}}

\* bodies under their own names with the declared length right
ExactAttrs(pool) ==
    LET smt == IndicesOf(pool, NameStackMapTable)
        code == IndicesOf(pool, NameCode)
    IN  {Attr(i, U32(Len(b)), b) : i \in smt, b \in StackMapBodies}
        \cup {Attr(i, U32(Len(b)), b) : i \in code, b \in CodeBodies(pool)}

\* bodies with the declared length wrong, and bodies under each other's names
OtherAttrs(pool) ==
    LET cv == IndicesOf(pool, NameConstantValue)
        smt == IndicesOf(pool, NameStackMapTable)
        code == IndicesOf(pool, NameCode)
    IN  UNION {{Attr(i, d, b) : i \in smt, d \in Declared(Len(b))} : b \in StackMapBodies}
        \cup UNION {{Attr(i, d, b) : i \in code, d \in Declared(Len(b))} :
                        b \in CodeBodies(pool)}
        \cup {Attr(i, U32(Len(b)), b) : i \in smt \cup cv, b \in CodeBodies(pool)}
        \cup {Attr(i, U32(Len(b)), b) : i \in code \cup cv, b \in StackMapBodies}

ConstantValueAttrs(pool) ==
    {Attr(i, d, b) : i \in IndicesOf(pool, NameConstantValue), b \in ConstantValueBodies,
                     d \in {U32(0), U32(1), U32(2), U32(3), <<255, 255, 255, 255>>}}

\* every truncation of the short attributes and of those that declare their
\* length right, the others whole, and each whole attribute followed by one byte
AttributeInputs(pool) ==
    LET cut == NameProbes(pool) \cup ConstantValueAttrs(pool) \cup ExactAttrs(pool)
        whole == cut \cup OtherAttrs(pool)
    IN  UNION {Prefixes(a) : a \in cut} \cup whole \cup {a \o <<7>> : a \in whole}

\* ---- inputs of the verification-type and stack-map-frame decoders
VerificationTypeInputs ==
    {<<>>} \cup {<<k>> \o rest : k \in 0..255, rest \in Prefixes(<<18, 52, 86>>)}

FrameTails ==
    UNION {Prefixes(t) : t \in
        { <<7, 18, 52, 99>>,                             \* Object(0x1234), one byte over
          <<9>>,                                         \* no verification type
          <<18, 52, 7, 0, 5, 99>>,                       \* offset 0x1234, Object(5)
          <<18, 52, 1, 2, 8, 0, 3, 0>>,                  \* offset, Integer Float Uninitialized(3)
          <<18, 52, 200>>,                               \* offset, no verification type
          <<0, 1, 0, 2, 1, 7, 0, 9, 0, 1, 4, 77>>,       \* full frame: 2 locals, 1 stack item
          <<0, 0, 0, 0, 0, 0>> }}                        \* full frame: nothing in it

FrameInputs == {<<>>} \cup {<<t>> \o tail : t \in 0..255, tail \in FrameTails}

\* ---- inputs of the exception-table-row decoder: every truncation of rows
\* with two bytes after them
RowInputs ==
    UNION {Prefixes([i \in 1..10 |-> (a * i + b) % 256]) :
               a \in {0, 1, 67, 255}, b \in {0, 1, 104, 255}}

\* ---- inputs of the decode taken call by call: Code attributes nested
\* MaxNesting deep, and Code attributes that declare 0xFFFF rows or
\* sub-attributes
RECURSIVE Nested(_)
Nested(k) ==
    IF k = 0 THEN Attr(1, U32(2), U16(4660))
    ELSE LET sub == Nested(k - 1)
         IN  Attr(2, U32(12 + Len(sub)), CodeBody(0, 0, <<sub>>))

ManyAttributes ==
    Attr(4, U32(28), U16(1) \o U16(1) \o U32(0) \o U16(0) \o U16(65535)
                         \o Attr(1, U32(2), U16(4660)) \o Attr(3, U32(2), U16(0)))

ManyRows ==
    Attr(2, U32(28), U16(1) \o U16(1) \o U32(0) \o U16(65535) \o RowBytes \o RowBytes)

StepInputs ==
    UNION {Prefixes(a) \cup {a \o <<7>>} :
               a \in {Nested(k) : k \in 0..MaxNesting}
                     \cup {ManyAttributes, ManyRows,
                           Attr(2, U32(12 + Len(ManyAttributes)),
                                CodeBody(0, 0, <<ManyAttributes>>)),
                           Attr(4, U32(13 + Len(Nested(1))),
                                CodeBody(0, 0, <<Nested(1), Attr(5, U32(0), <<>>)>>)),
                           Attr(2, U32(30), CodeBody(0, 1, <<Nested(0), Attr(3, U32(2), U16(0))>>))}}

(***************************************************************************)
(* The state machine                                                       *)
(***************************************************************************)
InitLookup ==
    /\ data = <<>>
    /\ pos = 0
    /\ constants \in Pools
    /\ index \in Indices
    /\ op = "none"
    /\ result = NoResult
    /\ stack = <<>>

InitConstant ==
    /\ data \in ConstantInputs
    /\ pos = 0
    /\ constants = <<>>
    /\ index = 0
    /\ op = "none"
    /\ result = NoResult
    /\ stack = <<>>

InitAttribute ==
    /\ constants \in AttributePools
    /\ data \in AttributeInputs(constants)
    /\ pos = 0
    /\ index = 0
    /\ op = "none"
    /\ result = NoResult
    /\ stack = <<>>

InitVerificationType ==
    /\ data \in VerificationTypeInputs
    /\ pos = 0
    /\ constants = <<>>
    /\ index = 0
    /\ op = "none"
    /\ result = NoResult
    /\ stack = <<>>

InitFrame ==
    /\ data \in FrameInputs
    /\ pos = 0
    /\ constants = <<>>
    /\ index = 0
    /\ op = "none"
    /\ result = NoResult
    /\ stack = <<>>

InitRow ==
    /\ data \in RowInputs
    /\ pos = 0
    /\ constants = <<>>
    /\ index = 0
    /\ op = "none"
    /\ result = NoResult
    /\ stack = <<>>

\* Attribute::deserialize is called and has not run yet
InitSteps ==
    /\ data \in StepInputs
    /\ pos = 0
    /\ constants = NamePool
    /\ index = 0
    /\ op = "decoding"
    /\ result = NoResult
    /\ stack = <<>>

Init ==
    \/ InitLookup
    \/ InitConstant
    \/ InitAttribute
    \/ InitVerificationType
    \/ InitFrame
    \/ InitRow
    \/ InitSteps

\* index.lookup(&constants)
Lookup ==
    /\ op = "none"
    /\ op' = "lookup"
    /\ result' = lookup(index, constants)
    /\ UNCHANGED <<data, pos, constants, index, stack>>

\* Constant::deserialize(&mut data)
ConstantDeserialize ==
    /\ op = "none"
    /\ op' = "constant"
    /\ result' = Constant_deserialize(data, pos)
    /\ pos' = result'.pos
    /\ UNCHANGED <<data, constants, index, stack>>

\* Attribute::deserialize taking the entry it rejects out of the pool, a
\* placeholder left in its slot, where the code clones it
AttributeDeserialize_moves_entry ==
    /\ op = "none"
    /\ op' = "attribute"
    /\ result' = Attribute_deserialize(data, pos, constants)
    /\ pos' = result'.pos
    /\ constants' = IF ~result'.ok /\ result'.err.kind = "InvalidAttributeType"
                    THEN [constants EXCEPT ![get_u16_be(data, pos)] = Dummy]
                    ELSE constants
    /\ UNCHANGED <<data, index, stack>>

\* Attribute::deserialize(&mut data, &constants)
AttributeDeserialize ==
    /\ op = "none"
    /\ op' = "attribute"
    /\ result' = Attribute_deserialize(data, pos, constants)
    /\ pos' = result'.pos
    /\ UNCHANGED <<data, constants, index, stack>>

\* VerificationType::deserialize(&mut data)
VerificationTypeDeserialize ==
    /\ op = "none"
    /\ op' = "verification_type"
    /\ result' = VerificationType_deserialize(data, pos)
    /\ pos' = result'.pos
    /\ UNCHANGED <<data, constants, index, stack>>

\* StackMapFrame::deserialize(&mut data)
StackMapFrameDeserialize ==
    /\ op = "none"
    /\ op' = "frame"
    /\ result' = StackMapFrame_deserialize(data, pos)
    /\ pos' = result'.pos
    /\ UNCHANGED <<data, constants, index, stack>>

\* ExceptionTableRow::deserialize(&mut data)
ExceptionTableRowDeserialize ==
    /\ op = "none"
    /\ op' = "row"
    /\ result' = ExceptionTableRow_deserialize(data, pos)
    /\ pos' = result'.pos
    /\ UNCHANGED <<data, constants, index, stack>>

\* Constant::deserialize once more, with a new cursor over the same bytes
ConstantDeserializeAgain ==
    /\ op = "constant"
    /\ op' = "constant_again"
    /\ result' = Constant_deserialize(data, 0)
    /\ pos' = result'.pos
    /\ UNCHANGED <<data, constants, index, stack>>

\* Attribute::deserialize once more, with a new cursor over the same bytes and
\* the same pool
AttributeDeserializeAgain ==
    /\ op = "attribute"
    /\ op' = "attribute_again"
    /\ result' = Attribute_deserialize(data, 0, constants)
    /\ pos' = result'.pos
    /\ UNCHANGED <<data, constants, index, stack>>

\* one call of Attribute::deserialize at the cursor: the call that started the
\* decode, or the next turn of the loop of deserialize_multiple_with_constants
\* in the innermost deserialize_code.  result is the outcome of the call.
AttributeStep ==
    /\ op = "decoding"
    /\ IF stack = <<>> THEN TRUE ELSE stack[Len(stack)].count > 0
    /\ result' = attribute_call(data, pos, constants)
    /\ pos' = result'.pos
    /\ stack' = stack_after(stack, result')
    /\ op' = op_after(stack, result')
    /\ UNCHANGED <<data, constants, index>>

\* the loop of the innermost deserialize_code has run its count: the length
\* check, and the Code attribute goes to the caller
CodeReturn ==
    /\ op = "decoding"
    /\ stack # <<>>
    /\ stack[Len(stack)].count = 0
    /\ result' = code_return(data, pos, stack[Len(stack)])
    /\ pos' = result'.pos
    /\ stack' = stack_after(SubSeq(stack, 1, Len(stack) - 1), result')
    /\ op' = op_after(SubSeq(stack, 1, Len(stack) - 1), result')
    /\ UNCHANGED <<data, constants, index>>

Next ==
    \/ Lookup
    \/ ConstantDeserialize
    \/ AttributeDeserialize
    \/ VerificationTypeDeserialize
    \/ StackMapFrameDeserialize
    \/ ExceptionTableRowDeserialize
    \/ ConstantDeserializeAgain
    \/ AttributeDeserializeAgain
    \/ AttributeStep
    \/ CodeReturn

Spec == Init /\ [][Next]_vars

LookupSpec == InitLookup /\ [][Lookup]_vars

ConstantSpec == InitConstant /\ [][ConstantDeserialize]_vars

AttributeSpec == InitAttribute /\ [][AttributeDeserialize]_vars

VerificationTypeSpec == InitVerificationType /\ [][VerificationTypeDeserialize]_vars

FrameSpec == InitFrame /\ [][StackMapFrameDeserialize]_vars

RowSpec == InitRow /\ [][ExceptionTableRowDeserialize]_vars

\* a call that has started keeps running: each step that can be taken is taken
StepSpec ==
    /\ InitSteps
    /\ [][AttributeStep \/ CodeReturn]_vars
    /\ WF_vars(AttributeStep \/ CodeReturn)

\* the inputs decoded twice: every constant input, and the attributes that stop
\* at their name or carry a ConstantValue
InitRepeat ==
    \/ InitConstant
    \/ /\ constants \in AttributePools
       /\ data \in NameProbes(constants) \cup ConstantValueAttrs(constants)
       /\ pos = 0
       /\ index = 0
       /\ op = "none"
       /\ result = NoResult
       /\ stack = <<>>
    /\ stack = <<>>

RepeatSpec ==
    InitRepeat /\ [][\/ ConstantDeserialize
                     \/ ConstantDeserializeAgain
                     \/ AttributeDeserialize
                     \/ AttributeDeserializeAgain]_vars

(***************************************************************************)
(* Properties.  Each is stated over the input of the state (data,          *)
(* constants, index) and the outcome the operation left (op, result, pos). *)
(***************************************************************************)
Failed(kind) == ~result.ok /\ result.err.kind = kind

\* the name index at the head of the input, and what it resolves to
NameIndexRead == get_u16_be(data, 0)

NameInPool == Len(data) >= 2 /\ NameIndexRead \in 1..Len(constants)

NameEntry == constants[NameIndexRead]

NameIs(name) == NameInPool /\ NameEntry.type = "Utf8" /\ NameEntry.text = name

\* the declared length of the attribute at the head of the input
DeclaredLength == get_u32_be(data, 2)

Bytes4(len) == U16(len[1]) \o U16(len[2])

\* the input with another declared length
Redeclared(len) == SubSeq(data, 1, 2) \o Bytes4(len) \o SubSeq(data, 7, Len(data))

\* C1: lookup(index, pool) is ZeroIndex for index 0, else OutOfRange(index) for
\* an index above the pool length, else IndexInsideDoubleWidthConstant(index)
\* when slot index-1 holds the placeholder, else the entry of slot index-1; the
\* placeholder is never returned.
C1_LookupOutcome ==
    op = "lookup" =>
        /\ index = 0 => ~result.ok /\ result.err = ZeroIndex
        /\ index > Len(constants) => ~result.ok /\ result.err = OutOfRange(index)
        /\ (index \in 1..Len(constants) /\ constants[index].type = "Dummy") =>
               ~result.ok /\ result.err = IndexInsideDoubleWidthConstant(index)
        /\ (index \in 1..Len(constants) /\ constants[index].type # "Dummy") =>
               result.ok /\ result.val = constants[index]
        /\ result.ok => result.val.type # "Dummy"

\* a lookup of the last slot of a pool that also holds a placeholder succeeds
C1_Witness ==
    /\ op = "lookup"
    /\ result.ok
    /\ index = Len(constants)
    /\ \E i \in 1..Len(constants) : constants[i].type = "Dummy"

\* the body of the attribute parses completely and takes c bytes: with c
\* declared, the decode succeeds and stops 6 + c bytes in
BodyTakes(c) ==
    LET r == Attribute_deserialize(Redeclared(AsU32(c)), 0, constants)
    IN  r.ok /\ r.pos = 6 + c

\* C2: for a Code or StackMapTable attribute whose body parses completely,
\* taking c bytes, the decode succeeds exactly when the declared length is c,
\* and otherwise fails with LengthMismatch stating the declared length and
\* inferring c; either way the cursor stops after the c bytes the body took,
\* wherever the declared length points.
C2_LengthCrossCheck ==
    (op = "attribute" /\ Len(data) >= 6 /\ (NameIs(NameCode) \/ NameIs(NameStackMapTable))) =>
        \A c \in 0..(Len(data) - 6) :
            BodyTakes(c) =>
                /\ result.pos = 6 + c
                /\ result.ok <=> DeclaredLength = AsU32(c)
                /\ DeclaredLength # AsU32(c) =>
                       /\ Failed("LengthMismatch")
                       /\ result.err.stated_length = DeclaredLength
                       /\ result.err.inferred_length = AsU32(c)

\* a Code attribute whose body parses, declared one byte longer than it is and
\* with that byte present in the input
C2_Witness ==
    /\ op = "attribute"
    /\ NameIs(NameCode)
    /\ Failed("LengthMismatch")
    /\ result.pos < Len(data)
    /\ BodyTakes(result.pos - 6)
    /\ DeclaredLength = AsU32(result.pos - 6 + 1)

\* 6 + declared length, summed over count attributes laid end to end from
\* position p of d; -1 when a length field lies outside d
RECURSIVE SumOfDeclared(_, _, _)
SumOfDeclared(d, p, count) ==
    IF count = 0 THEN 0
    ELSE IF p + 6 > Len(d) \/ get_u32_be(d, p + 2)[1] # 0 THEN -1
    ELSE LET n == 6 + AsUsize(get_u32_be(d, p + 2))
             rest == SumOfDeclared(d, p + n, count - 1)
         IN  IF rest < 0 THEN -1 ELSE n + rest

\* the Code attribute decoded at position p, if there is one, declares
\* 12 + code length + 8 * rows + the sum over its sub-attributes
CodeLengthAt(p) ==
    LET r == Attribute_deserialize(data, p, constants)
    IN  (r.ok /\ r.val.attr = "Code") =>
            LET n == Len(r.val.code)
                rows == Len(r.val.exception_table)
                subs == SumOfDeclared(data, p + 18 + n + 8 * rows, Len(r.val.attributes))
            IN  /\ subs >= 0
                /\ get_u32_be(data, p + 2) = AsU32(12 + n + 8 * rows + subs)

TrivialCodeBody == Len(data) >= 18 /\ SubSeq(data, 7, 18) = U32(0) \o U32(0) \o U32(0)

\* C3: a Code attribute decodes successfully only if its declared length is
\* 12 + code_length + 8 * rows + the sum over its sub-attributes of (6 + the
\* sub-attribute's declared length), at every nesting depth; the trivial body
\* succeeds exactly when 12 is declared, and fails with LengthMismatch when 11
\* or 13 is.
C3_CodeLength ==
    op = "attribute" =>
        /\ \A p \in 0..Len(data) : CodeLengthAt(p)
        /\ (NameIs(NameCode) /\ TrivialCodeBody) =>
               /\ result.ok <=> DeclaredLength = <<0, 12>>
               /\ DeclaredLength \in {<<0, 11>>, <<0, 13>>} => Failed("LengthMismatch")

\* a Code attribute with code bytes, an exception-table row and a sub-attribute
\* decodes
C3_Witness ==
    /\ op = "attribute"
    /\ result.ok
    /\ result.val.attr = "Code"
    /\ Len(result.val.code) > 0
    /\ Len(result.val.exception_table) > 0
    /\ Len(result.val.attributes) > 0

\* C4: a ConstantValue attribute whose length field is present fails with
\* LengthMismatch (stated: the declared length, inferred: 2) for every declared
\* length but 2, whatever follows; with 2 declared it yields the 2-byte index
\* that follows, or Eof when fewer than 2 bytes follow.
C4_ConstantValueLength ==
    (op = "attribute" /\ Len(data) >= 6 /\ NameIs(NameConstantValue)) =>
        /\ DeclaredLength # <<0, 2>> =>
               /\ ~result.ok
               /\ result.err = LengthMismatch("ConstantValue attribute", DeclaredLength, <<0, 2>>)
        /\ (DeclaredLength = <<0, 2>> /\ Len(data) < 8) => Failed("Eof")
        /\ (DeclaredLength = <<0, 2>> /\ Len(data) >= 8) =>
               /\ result.ok
               /\ result.val = ConstantValue(NameIndexRead, get_u16_be(data, 6))
               /\ result.pos = 8

\* a ConstantValue attribute declaring 0xFFFFFFFF with nothing after the
\* length field
C4_Witness ==
    /\ op = "attribute"
    /\ NameIs(NameConstantValue)
    /\ Len(data) = 6
    /\ DeclaredLength = <<65535, 65535>>
    /\ Failed("LengthMismatch")

\* the outcomes of StackMapFrame::deserialize applied k times, each from where
\* the one before stopped, up to the first that fails
RECURSIVE FrameRun(_, _, _)
FrameRun(d, p, k) ==
    IF k = 0 THEN <<>>
    ELSE LET f == StackMapFrame_deserialize(d, p)
         IN  IF ~f.ok THEN <<f>> ELSE <<f>> \o FrameRun(d, f.pos, k - 1)

\* C5: a StackMapTable attribute decodes successfully exactly when all its
\* counted frames decode and the declared length is 2 + the bytes they took
\* (2 for no frames); when the frames decode and the declared length is
\* anything else it fails with LengthMismatch; on success entries holds the
\* counted number of frames in stream order.
C5_StackMapTableLength ==
    (op = "attribute" /\ Len(data) >= 8 /\ NameIs(NameStackMapTable)) =>
        LET count == get_u16_be(data, 6)
            run == FrameRun(data, 8, count)
            decoded == Len(run) = count /\ \A i \in 1..Len(run) : run[i].ok
            consumed == IF Len(run) = 0 THEN 2 ELSE run[Len(run)].pos - 6
        IN  /\ result.ok <=> (decoded /\ DeclaredLength = AsU32(consumed))
            /\ (decoded /\ DeclaredLength # AsU32(consumed)) =>
                   /\ Failed("LengthMismatch")
                   /\ result.err.inferred_length = AsU32(consumed)
            /\ result.ok =>
                   /\ Len(result.val.entries) = count
                   /\ \A i \in 1..count : result.val.entries[i] = run[i].val

\* a table of two different frames decodes
C5_Witness ==
    /\ op = "attribute"
    /\ NameIs(NameStackMapTable)
    /\ result.ok
    /\ Len(result.val.entries) = 2
    /\ result.val.entries[1] # result.val.entries[2]

DecodableTags == {1, 3, 4, 5, 6, 7, 8, 9, 10, 11, 15, 16, 18}

\* C6: Constant::deserialize on a non-empty input succeeds only if the first
\* byte is one of the 13 decodable tags; for every other first byte t it fails
\* with InvalidConstantType(t), having consumed the tag byte alone.
C6_InvalidConstantType ==
    (op = "constant" /\ Len(data) > 0) =>
        /\ result.ok => data[1] \in DecodableTags /\ get_tag(result.val) = data[1]
        /\ data[1] \notin DecodableTags =>
               /\ ~result.ok
               /\ result.err = InvalidConstantType(data[1])
               /\ result.pos = 1

\* the name-and-type tag, with four bytes after it, is rejected
C6_Witness ==
    /\ op = "constant"
    /\ Len(data) >= 5
    /\ data[1] = 12
    /\ Failed("InvalidConstantType")

\* C7: when Constant::deserialize succeeds and consumes the whole input,
\* every proper prefix of the input (the empty one included) fails with Eof.
C7_TruncationIsEof ==
    (op = "constant" /\ result.ok /\ result.pos = Len(data)) =>
        \A k \in 0..(Len(data) - 1) :
            LET r == Constant_deserialize(SubSeq(data, 1, k), 0)
            IN  ~r.ok /\ r.err.kind = "Eof"

\* a UTF-8 entry with a multi-byte character decodes from exactly its bytes
C7_Witness ==
    /\ op = "constant"
    /\ result.ok
    /\ result.pos = Len(data)
    /\ result.val.type = "Utf8"
    /\ \E i \in 1..Len(result.val.text) : result.val.text[i] >= 128

\* C8: a method-handle constant whose kind byte k is 0 or at least 10 fails
\* with InvalidMethodHandleKind(k), whatever bytes (if any) follow the kind.
C8_InvalidKindAtKindByte ==
    (op = "constant" /\ Len(data) >= 2 /\ data[1] = 15 /\ (data[2] = 0 \/ data[2] >= 10)) =>
        ~result.ok /\ result.err = InvalidMethodHandleKind(data[2])

\* C9: Attribute::deserialize resolves the 2-byte name index before it reads
\* anything else: a resolver failure comes back as InvalidConstantRef around
\* it, an entry that is not UTF-8 text as InvalidAttributeType around a copy of
\* the entry, both with the cursor after the name index and whether or not a
\* length field follows; Eof for the length field means the name resolved to
\* UTF-8 text.
C9_NameResolvedFirst ==
    (op = "attribute" /\ Len(data) >= 2) =>
        /\ NameIndexRead = 0 =>
               ~result.ok /\ result.err = InvalidConstantRef(ZeroIndex) /\ result.pos = 2
        /\ NameIndexRead > Len(constants) =>
               /\ ~result.ok
               /\ result.err = InvalidConstantRef(OutOfRange(NameIndexRead))
               /\ result.pos = 2
        /\ (NameInPool /\ NameEntry.type = "Dummy") =>
               /\ ~result.ok
               /\ result.err = InvalidConstantRef(IndexInsideDoubleWidthConstant(NameIndexRead))
               /\ result.pos = 2
        /\ (NameInPool /\ NameEntry.type \notin {"Dummy", "Utf8"}) =>
               /\ ~result.ok
               /\ result.err = InvalidAttributeType(NameEntry)
               /\ result.pos = 2
        /\ (NameInPool /\ NameEntry.type = "Utf8" /\ Len(data) < 6) =>
               ~result.ok /\ result.err = Eof("attribute length")
        /\ (~result.ok /\ result.err = Eof("attribute length")) =>
               NameInPool /\ NameEntry.type = "Utf8"

\* a name index that lands on a StringRef to UTF-8 text, with nothing after it
C9_Witness ==
    /\ op = "attribute"
    /\ Len(data) = 2
    /\ NameInPool
    /\ NameEntry.type = "StringRef"
    /\ constants[NameEntry.index].type = "Utf8"
    /\ Failed("InvalidAttributeType")

\* C10: when the name resolves to UTF-8 text other than "ConstantValue", "Code"
\* and "StackMapTable" and the length field is present, the decode fails with
\* UnknownAttributeType carrying the text, the cursor right after the length
\* field.
C10_UnknownAttributeType ==
    (/\ op = "attribute"
     /\ Len(data) >= 6
     /\ NameInPool
     /\ NameEntry.type = "Utf8"
     /\ NameEntry.text \notin {NameConstantValue, NameCode, NameStackMapTable}) =>
        /\ ~result.ok
        /\ result.err = UnknownAttributeType(NameEntry.text)
        /\ result.pos = 6

\* a name that starts with "Code", declared 2 with 2 bytes after the length
C10_Witness ==
    /\ op = "attribute"
    /\ Len(data) >= 8
    /\ NameIs(NameCodeX)
    /\ DeclaredLength = <<0, 2>>
    /\ Failed("UnknownAttributeType")

\* the frame kind the class-file format gives a tag
FrameKind(tag) ==
    CASE tag \in 0..63 -> "SameFrame"
      [] tag \in 64..127 -> "SameLocalsOneStackItemFrame"
      [] tag = 247 -> "SameLocalsOneStackItemFrameExtended"
      [] tag \in 248..250 -> "ChopFrame"
      [] tag = 251 -> "SameFrameExtended"
      [] tag \in 252..254 -> "AppendFrame"
      [] tag = 255 -> "FullFrame"
      [] OTHER -> "InvalidStackFrameType"

\* C11: StackMapFrame::deserialize gives every leading tag one outcome class:
\* a tag 128..246 fails with InvalidStackFrameType(tag) whatever follows, having
\* read the tag alone; any other tag never fails that way and, when it
\* succeeds, yields the frame kind of its range (0..63 SameFrame, 64..127
\* SameLocalsOneStackItemFrame, 247 SameLocalsOneStackItemFrameExtended,
\* 248..250 ChopFrame, 251 SameFrameExtended, 252..254 AppendFrame, 255
\* FullFrame); a tag 0..63 always succeeds.
C11_FrameTagClasses ==
    (op = "frame" /\ Len(data) >= 1) =>
        LET tag == data[1]
        IN  /\ tag \in 128..246 <=> Failed("InvalidStackFrameType")
            /\ tag \in 128..246 => result = Err(InvalidStackFrameType(tag), 1)
            /\ result.ok => result.val.frame = FrameKind(tag)
            /\ tag \in 0..63 => result.ok /\ pos = 1

C11_Witness ==
    /\ op = "frame"
    /\ Len(data) = 4
    /\ data[1] = 128
    /\ result = Err(InvalidStackFrameType(128), 1)

\* the outcomes of VerificationType::deserialize applied k times, each from
\* where the one before stopped, up to the first that fails
RECURSIVE TypeRun(_, _, _)
TypeRun(d, p, k) ==
    IF k = 0 THEN <<>>
    ELSE LET v == VerificationType_deserialize(d, p)
         IN  IF ~v.ok THEN <<v>> ELSE <<v>> \o TypeRun(d, v.pos, k - 1)

\* the two bytes after the tag, most significant first
OffsetDeltaBytes == data[2] * 256 + data[3]

\* C12: the payload of a frame follows from its tag.  A tag 0..63 gives
\* SameFrame with offset_delta = tag.  A tag 64..127 gives offset_delta =
\* tag - 64 and the one verification type that follows the tag.  Every tag
\* 247..255 first reads two bytes, big-endian, as offset_delta (Eof when they
\* are missing); tag 247 then reads its verification type; tags 248..250 give
\* num_absent_locals = 251 - tag; tags 252..254 read exactly tag - 251
\* verification types after the offset.
C12_FramePayload ==
    (op = "frame" /\ Len(data) >= 1) =>
        LET tag == data[1]
            item == VerificationType_deserialize(data, IF tag = 247 THEN 3 ELSE 1)
            run == TypeRun(data, 3, tag - 251)
        IN  /\ tag \in 0..63 => result = Ok(SameFrame(tag), 1)
            /\ tag \in 64..127 =>
                   result = IF item.ok
                            THEN Ok(SameLocalsOneStackItemFrame(tag - 64, item.val), item.pos)
                            ELSE item
            /\ (tag \in 247..255 /\ Len(data) < 3) => Failed("Eof") /\ pos = 1
            /\ (tag \in 247..255 /\ result.ok) => result.val.offset_delta = OffsetDeltaBytes
            /\ (tag = 247 /\ Len(data) >= 3) =>
                   result = IF item.ok
                            THEN Ok(SameLocalsOneStackItemFrameExtended(OffsetDeltaBytes,
                                                                        item.val), item.pos)
                            ELSE item
            /\ (tag \in 248..250 /\ Len(data) >= 3) =>
                   result = Ok(ChopFrame(OffsetDeltaBytes, 251 - tag), 3)
            /\ (tag = 251 /\ Len(data) >= 3) =>
                   result = Ok(SameFrameExtended(OffsetDeltaBytes), 3)
            /\ (tag \in 252..254 /\ Len(data) >= 3) =>
                   /\ result.ok <=> (Len(run) = tag - 251 /\ \A i \in 1..Len(run) : run[i].ok)
                   /\ ~result.ok => result = run[Len(run)]
                   /\ result.ok =>
                          /\ Len(result.val.new_locals) = tag - 251
                          /\ \A i \in 1..(tag - 251) : result.val.new_locals[i] = run[i].val
                          /\ pos = run[tag - 251].pos

\* an append frame of tag 253 takes two verification types and leaves the rest
C12_Witness ==
    /\ op = "frame"
    /\ Len(data) >= 1
    /\ data[1] = 253
    /\ result.ok
    /\ Len(result.val.new_locals) = 2
    /\ result.val.offset_delta = 4660
    /\ pos < Len(data)

\* the verification types without a payload, in the order of their kind bytes
\* 0..6
PlainVerificationTypes ==
    <<"Top", "Integer", "Float", "Double", "Long", "Null", "UninitializedThis">>

\* C13: VerificationType::deserialize maps kind 0..6 to Top, Integer, Float,
\* Double, Long, Null, UninitializedThis, consuming the kind byte alone; kind 7
\* to Object and kind 8 to Uninitialized, each carrying the next two bytes
\* (big-endian) and consuming three bytes, or Eof when the two bytes are
\* missing; every kind 9..255 fails with InvalidVerificationType(kind).
C13_VerificationTypeKinds ==
    (op = "verification_type" /\ Len(data) >= 1) =>
        LET kind == data[1]
        IN  /\ kind \in 0..6 =>
                   result = Ok(VerificationType(PlainVerificationTypes[kind + 1]), 1)
            /\ (kind \in {7, 8} /\ Len(data) < 3) => Failed("Eof")
            /\ (kind = 7 /\ Len(data) >= 3) => result = Ok(Object(OffsetDeltaBytes), 3)
            /\ (kind = 8 /\ Len(data) >= 3) =>
                   result = Ok(Uninitialized(OffsetDeltaBytes), 3)
            /\ kind \in 9..255 => result = Err(InvalidVerificationType(kind), 1)
            /\ pos = result.pos

\* kind 4 followed by other bytes is Long and takes one byte
C13_Witness ==
    /\ op = "verification_type"
    /\ Len(data) = 4
    /\ data[1] = 4
    /\ result = Ok(VerificationType("Long"), 1)
    /\ pos = 1

\* the scalar value a byte sequence encodes in UTF-8 form of its length
ScalarOf(seg) ==
    CASE Len(seg) = 1 -> seg[1]
      [] Len(seg) = 2 -> (seg[1] - 192) * 64 + (seg[2] - 128)
      [] Len(seg) = 3 -> (seg[1] - 224) * 4096 + (seg[2] - 128) * 64 + (seg[3] - 128)
      [] Len(seg) = 4 -> (seg[1] - 240) * 262144 + (seg[2] - 128) * 4096
                             + (seg[3] - 128) * 64 + (seg[4] - 128)

\* seg is the shortest-form UTF-8 encoding of one Unicode scalar value
EncodesScalar(seg) ==
    /\ Len(seg) \in 1..4
    /\ \A i \in 2..Len(seg) : seg[i] \in 128..191
    /\ seg[1] \in (CASE Len(seg) = 1 -> 0..127
                     [] Len(seg) = 2 -> 192..223
                     [] Len(seg) = 3 -> 224..239
                     [] Len(seg) = 4 -> 240..247)
    /\ ScalarOf(seg) >= (CASE Len(seg) = 1 -> 0
                           [] Len(seg) = 2 -> 128
                           [] Len(seg) = 3 -> 2048
                           [] Len(seg) = 4 -> 65536)
    /\ ScalarOf(seg) <= 1114111
    /\ ScalarOf(seg) \notin 55296..57343

\* s is a concatenation of encoded scalar values
WellFormedUtf8(s) ==
    \E cuts \in SUBSET (0..Len(s)) :
        /\ 0 \in cuts
        /\ Len(s) \in cuts
        /\ \A b \in cuts \ {Len(s)} :
               LET next == CHOOSE c \in cuts : c > b /\ \A c2 \in cuts : c2 > b => c <= c2
               IN  EncodesScalar(SubSeq(s, b + 1, next))

\* C14: a UTF-8 constant with length field N fails with Eof when fewer than N
\* bytes follow the length field, whatever those bytes are; with N bytes present
\* that are not well-formed UTF-8 it fails with the Utf8 error and returns no
\* text; with N well-formed bytes it yields exactly those bytes as text (the
\* empty text for N = 0) and stops right after them.
C14_Utf8Outcome ==
    (op = "constant" /\ Len(data) >= 3 /\ data[1] = 1) =>
        LET N == data[2] * 256 + data[3]
            text == SubSeq(data, 4, 3 + N)
        IN  /\ Len(data) - 3 < N => Failed("Eof")
            /\ (Len(data) - 3 >= N /\ ~WellFormedUtf8(text)) =>
                   /\ Failed("Utf8")
                   /\ "val" \notin DOMAIN result
            /\ (Len(data) - 3 >= N /\ WellFormedUtf8(text)) =>
                   result = Ok(Utf8(text), 3 + N)

\* two bytes that are not UTF-8 under a length field of three: Eof
C14_Witness ==
    /\ op = "constant"
    /\ data = <<1, 0, 3, 195, 40>>
    /\ Failed("Eof")

\* the bytes an entry takes after its tag; n is the length field of a UTF-8
\* entry
PayloadWidth(type, n) ==
    CASE type \in {"Integer", "Float"} -> 4
      [] type \in {"Long", "Double"} -> 8
      [] type \in {"ClassRef", "StringRef", "MethodType"} -> 2
      [] type \in {"FieldRef", "MethodRef", "InterfaceMethodRef", "InvokeDynamicInfo"} -> 4
      [] type = "MethodHandleRef" -> 3
      [] type = "Utf8" -> 2 + n

\* C15: when Constant::deserialize succeeds the cursor stands exactly 1 + w
\* bytes on, w being 4 for Integer and Float, 8 for Long and Double, 2 for
\* ClassRef, StringRef and MethodType, 4 for FieldRef, MethodRef,
\* InterfaceMethodRef and InvokeDynamic, 3 for MethodHandle and 2 + N for a
\* UTF-8 entry of length field N; the bytes from there on are unread, and the
\* entry is the one its own 1 + w bytes decode to.
C15_CursorAdvance ==
    (op = "constant" /\ result.ok) =>
        LET N == IF Len(data) >= 3 THEN data[2] * 256 + data[3] ELSE 0
        IN  /\ pos = 1 + PayloadWidth(result.val.type, N)
            /\ pos <= Len(data)
            /\ result = Constant_deserialize(SubSeq(data, 1, pos), 0)

\* a Double with a byte after its eight
C15_Witness ==
    /\ op = "constant"
    /\ Len(data) = 10
    /\ data[1] = 6
    /\ result.ok
    /\ result.val.type = "Double"
    /\ pos = 9

BigEndian16(i) == data[i] * 256 + data[i + 1]

\* C18: multi-byte integers are read most significant byte first and every
\* value is accepted.  An Integer entry (tag 3) of bytes b0 b1 b2 b3 has the
\* value whose upper half is b0*256 + b1 and lower half b2*256 + b3, a Long
\* (tag 5) likewise over its 8 bytes, and every pool index is hi*256 + lo of
\* its two bytes.  The index is not resolved: ClassRef, StringRef, MethodType,
\* the three reference kinds, InvokeDynamic and a method handle of kind 1..9
\* decode for any index bytes, 0 and 0xFFFF included.
C18_BigEndian ==
    (op = "constant" /\ Len(data) >= 1) =>
        LET tag == data[1]
        IN  /\ (tag = 3 /\ Len(data) >= 5) =>
                   result = Ok(Integer(<<BigEndian16(2), BigEndian16(4)>>), 5)
            /\ (tag = 5 /\ Len(data) >= 9) =>
                   result = Ok(Long(<<BigEndian16(2), BigEndian16(4), BigEndian16(6),
                                      BigEndian16(8)>>), 9)
            /\ (tag \in {7, 8, 16} /\ Len(data) >= 3) =>
                   /\ result.ok
                   /\ result.val.index = BigEndian16(2)
                   /\ pos = 3
            /\ (tag \in {9, 10, 11} /\ Len(data) >= 5) =>
                   /\ result.ok
                   /\ result.val.class = BigEndian16(2)
                   /\ result.val.name_and_type = BigEndian16(4)
            /\ (tag = 18 /\ Len(data) >= 5) =>
                   /\ result.ok
                   /\ result.val.bootstrap_method_attr = BigEndian16(2)
                   /\ result.val.name_and_type = BigEndian16(4)
            /\ (tag = 15 /\ Len(data) >= 4 /\ data[2] \in 1..9) =>
                   /\ result.ok
                   /\ result.val.handle.index = BigEndian16(3)

\* a ClassRef whose index bytes are ff ff
C18_Witness ==
    /\ op = "constant"
    /\ Len(data) >= 3
    /\ data[1] = 7
    /\ data[2] = 255
    /\ data[3] = 255
    /\ result = Ok(ClassRef(65535), 3)

\* C19: FieldRef, MethodRef and InterfaceMethodRef (tags 9, 10, 11) take the
\* two bytes after the tag as the class index and the next two as the
\* name-and-type index; InvokeDynamic (tag 18) takes the first two as the
\* bootstrap-method index and the next two as the name-and-type index.  Each
\* tag yields its own variant and the two indices are never swapped.
C19_IndexOrder ==
    (op = "constant" /\ Len(data) >= 5) =>
        /\ data[1] = 9 => result = Ok(FieldRef(BigEndian16(2), BigEndian16(4)), 5)
        /\ data[1] = 10 => result = Ok(MethodRef(BigEndian16(2), BigEndian16(4)), 5)
        /\ data[1] = 11 =>
               result = Ok(InterfaceMethodRef(BigEndian16(2), BigEndian16(4)), 5)
        /\ data[1] = 18 =>
               result = Ok(InvokeDynamicInfo(BigEndian16(2), BigEndian16(4)), 5)

\* a MethodRef whose two indices differ
C19_Witness ==
    /\ op = "constant"
    /\ Len(data) >= 5
    /\ data[1] = 10
    /\ BigEndian16(2) # BigEndian16(4)
    /\ result.ok
    /\ result.val.type = "MethodRef"
    /\ result.val.class = BigEndian16(2)

\* the method handle variants in the order of their kind bytes 1..9
MethodHandleKinds ==
    <<"GetField", "GetStatic", "PutField", "PutStatic", "InvokeVirtual", "InvokeStatic",
      "InvokeSpecial", "NewInvokeSpecial", "InvokeInterface">>

\* C20: a method-handle constant (tag 15) with kind byte 1..9 followed by a
\* two-byte index decodes to GetField, GetStatic, PutField, PutStatic,
\* InvokeVirtual, InvokeStatic, InvokeSpecial, NewInvokeSpecial,
\* InvokeInterface in kind order, wrapping that index; different kinds give
\* different variants.
C20_MethodHandleKinds ==
    /\ \A j, k \in 1..9 : MethodHandleKinds[j] = MethodHandleKinds[k] => j = k
    /\ (op = "constant" /\ Len(data) >= 4 /\ data[1] = 15 /\ data[2] \in 1..9) =>
           result = Ok(MethodHandleRef(MethodHandle(MethodHandleKinds[data[2]],
                                                    BigEndian16(3))), 4)

\* kind 7 is InvokeSpecial
C20_Witness ==
    /\ op = "constant"
    /\ data = <<15, 7, 18, 52>>
    /\ result = Ok(MethodHandleRef(MethodHandle("InvokeSpecial", 4660)), 4)

\* the 13 kinds of entry the constant decoder builds
DecodableKinds ==
    {"Utf8", "Integer", "Float", "Long", "Double", "ClassRef", "StringRef", "FieldRef",
     "MethodRef", "InterfaceMethodRef", "MethodHandleRef", "MethodType", "InvokeDynamicInfo"}

\* C21: Constant::deserialize never returns the placeholder: every successful
\* result is an entry of one of the 13 decodable kinds, whatever the input.
C21_NeverDummy ==
    (op = "constant" /\ result.ok) =>
        /\ result.val # Dummy
        /\ result.val.type \in DecodableKinds

\* a Long, the entry a pool builder follows with the placeholder, decodes and
\* the bytes after it are left alone
C21_Witness ==
    /\ op = "constant"
    /\ Len(data) >= 1
    /\ data[1] = 5
    /\ result.ok
    /\ result.val.type = "Long"
    /\ pos < Len(data)

\* C22: ExceptionTableRow::deserialize asks for 8 bytes before it reads any:
\* with fewer it fails with Eof and the cursor where it was; with 8 or more it
\* takes exactly 8 and yields start_pc, end_pc, handler_pc and catch_type as
\* the four 16-bit values in stream order, each most significant byte first.
C22_ExceptionTableRow ==
    op = "row" =>
        /\ Len(data) < 8 => Failed("Eof") /\ pos = 0
        /\ Len(data) >= 8 =>
               result = Ok(ExceptionTableRow(BigEndian16(1), BigEndian16(3), BigEndian16(5),
                                             BigEndian16(7)), 8)

\* seven bytes: Eof, nothing consumed
C22_Witness ==
    /\ op = "row"
    /\ Len(data) = 7
    /\ Failed("Eof")
    /\ pos = 0

\* the attribute decoded from position p of d carries the two bytes at p as its
\* name, and so does each of its sub-attributes where it starts, to any depth
RECURSIVE NamesAsRead(_, _, _)
NamesAsRead(d, p, attribute) ==
    /\ attribute.attribute_name = get_u16_be(d, p)
    /\ attribute.attr = "Code" =>
           LET start == p + 18 + Len(attribute.code) + 8 * Len(attribute.exception_table)
           IN  \A i \in 1..Len(attribute.attributes) :
                   /\ SumOfDeclared(d, start, i - 1) >= 0
                   /\ NamesAsRead(d, start + SumOfDeclared(d, start, i - 1),
                                  attribute.attributes[i])

\* C23: a decoded attribute records as attribute_name the two-byte name index
\* read from the stream at its start: not another pool index holding the same
\* text, and for a sub-attribute not the index of the attribute around it.
\* This holds for ConstantValue, Code and StackMapTable and for every
\* sub-attribute of a Code attribute.
C23_NameIsIndexRead ==
    (op = "attribute" /\ result.ok) => NamesAsRead(data, 0, result.val)

\* a Code attribute named by the second pool entry that reads "Code", holding a
\* Code attribute that holds another attribute
C23_Witness ==
    /\ op = "attribute"
    /\ result.ok
    /\ result.val.attr = "Code"
    /\ \E i \in 1..(NameIndexRead - 1) : constants[i] = constants[NameIndexRead]
    /\ Len(result.val.attributes) > 0
    /\ result.val.attributes[1].attr = "Code"
    /\ Len(result.val.attributes[1].attributes) > 0
    /\ result.val.attributes[1].attributes[1].attribute_name # NameIndexRead

\* C24: when Attribute::deserialize succeeds and consumes the whole input,
\* every proper prefix of the input (the empty one included), decoded against
\* the same pool, fails with Eof: never with LengthMismatch or another kind.
C24_AttributeTruncationIsEof ==
    (op = "attribute" /\ result.ok /\ result.pos = Len(data)) =>
        \A k \in 0..(Len(data) - 1) :
            LET r == Attribute_deserialize(SubSeq(data, 1, k), 0, constants)
            IN  ~r.ok /\ r.err.kind = "Eof"

\* a Code attribute with an exception-table row and a StackMapTable inside it
\* decodes to its last byte
C24_Witness ==
    /\ op = "attribute"
    /\ result.ok
    /\ result.pos = Len(data)
    /\ result.val.attr = "Code"
    /\ Len(result.val.exception_table) > 0
    /\ \E i \in 1..Len(result.val.attributes) :
           /\ result.val.attributes[i].attr = "StackMapTable"
           /\ Len(result.val.attributes[i].entries) > 0

\* the outcomes of ExceptionTableRow::deserialize applied k times, each from
\* where the one before stopped, up to the first that fails
RECURSIVE RowRun(_, _, _)
RowRun(d, p, k) ==
    IF k = 0 THEN <<>>
    ELSE LET r == ExceptionTableRow_deserialize(d, p)
         IN  IF ~r.ok THEN <<r>> ELSE <<r>> \o RowRun(d, r.pos, k - 1)

\* the same for Attribute::deserialize against the pool
RECURSIVE AttributeRun(_, _, _, _)
AttributeRun(d, p, k, pool) ==
    IF k = 0 THEN <<>>
    ELSE LET a == Attribute_deserialize(d, p, pool)
         IN  IF ~a.ok THEN <<a>> ELSE <<a>> \o AttributeRun(d, a.pos, k - 1, pool)

\* a run that stopped at an element that failed
StoppedShort(run) == run # <<>> /\ ~run[Len(run)].ok

\* where a run of elements starting at p ended
EndOfRun(run, p) == IF run = <<>> THEN p ELSE run[Len(run)].pos

\* the input holds a Code attribute up to and including its exception table
\* length, which sits at position ExceptionTableAt
CodeLength == get_u32_be(data, 10)

ExceptionTableAt == 14 + AsUsize(CodeLength)

CodeHeadPresent ==
    /\ NameIs(NameCode)
    /\ Len(data) >= 14
    /\ CodeLength[1] = 0
    /\ ExceptionTableAt + 2 <= Len(data)

\* C25: a counted sequence is decoded left to right and the first element that
\* fails ends the whole decode with that element's error, unchanged: nothing
\* after it is read and no partial result is returned.  This holds for the
\* frames of a StackMapTable, the rows of an exception table and the
\* sub-attributes of a Code attribute, whatever length the enclosing attribute
\* declares: the element's error comes before the enclosing LengthMismatch.
C25_FirstFailureEndsDecode ==
    op = "attribute" =>
        /\ (NameIs(NameStackMapTable) /\ Len(data) >= 8) =>
               LET frames == FrameRun(data, 8, get_u16_be(data, 6))
               IN  StoppedShort(frames) => result = frames[Len(frames)]
        /\ CodeHeadPresent =>
               LET rows == RowRun(data, ExceptionTableAt + 2,
                                  get_u16_be(data, ExceptionTableAt))
                   q == EndOfRun(rows, ExceptionTableAt + 2)
               IN  /\ StoppedShort(rows) => result = rows[Len(rows)]
                   /\ (~StoppedShort(rows) /\ q + 2 <= Len(data)) =>
                          LET attributes == AttributeRun(data, q + 2, get_u16_be(data, q),
                                                         constants)
                          IN  StoppedShort(attributes) =>
                                  result = attributes[Len(attributes)]

\* a Code attribute that declares a wrong length and whose first sub-attribute
\* has an unknown name, with another sub-attribute after it: the decode ends
\* with UnknownAttributeType where the first one failed
C25_Witness ==
    /\ op = "attribute"
    /\ CodeHeadPresent
    /\ Failed("UnknownAttributeType")
    /\ result.pos < Len(data) - 6
    /\ DeclaredLength = AsU32(Len(data) - 6 + 1)

\* the values of a run whose elements all decoded
ValuesOf(run) == [i \in 1..Len(run) |-> run[i].val]

\* C26: a full frame (tag 255) reads offset_delta (2 bytes), the locals count
\* (2 bytes), that many verification types, the stack item count (2 bytes) and
\* that many verification types.  On success the two lists hold exactly the
\* declared numbers of types in stream order; both may be empty, which makes
\* a frame of 7 bytes.  Running out of input anywhere (offset, either count,
\* inside either list) gives Eof; the only other failure is a verification
\* type whose kind byte is not a kind.
C26_FullFrame ==
    (op = "frame" /\ Len(data) >= 1 /\ data[1] = 255) =>
        /\ Len(data) < 5 => Failed("Eof") /\ pos = (IF Len(data) < 3 THEN 1 ELSE 3)
        /\ Len(data) >= 5 =>
               LET locals == TypeRun(data, 5, BigEndian16(4))
                   q == EndOfRun(locals, 5)
               IN  /\ StoppedShort(locals) => result = locals[Len(locals)]
                   /\ (~StoppedShort(locals) /\ Len(data) < q + 2) =>
                          Failed("Eof") /\ pos = q
                   /\ (~StoppedShort(locals) /\ Len(data) >= q + 2) =>
                          LET stack_items == TypeRun(data, q + 2, get_u16_be(data, q))
                          IN  /\ StoppedShort(stack_items) =>
                                     result = stack_items[Len(stack_items)]
                              /\ ~StoppedShort(stack_items) =>
                                     /\ result = Ok(FullFrame(BigEndian16(2), ValuesOf(locals),
                                                              ValuesOf(stack_items)),
                                                    EndOfRun(stack_items, q + 2))
                                     /\ Len(result.val.locals) = BigEndian16(4)
                                     /\ Len(result.val.stack_items) = get_u16_be(data, q)
        /\ ~result.ok =>
               \/ Failed("Eof")
               \/ Failed("InvalidVerificationType") /\ data[pos] > 8
        /\ result.ok =>
               \A k \in 0..(pos - 1) :
                   LET r == StackMapFrame_deserialize(SubSeq(data, 1, k), 0)
                   IN  ~r.ok /\ r.err.kind = "Eof"
        /\ data = <<255, 0, 0, 0, 0, 0, 0>> => result = Ok(FullFrame(0, <<>>, <<>>), 7)

\* a full frame of two locals and one stack item, with a byte after it
C26_Witness ==
    /\ op = "frame"
    /\ Len(data) >= 1
    /\ data[1] = 255
    /\ result.ok
    /\ Len(result.val.locals) = 2
    /\ Len(result.val.stack_items) = 1
    /\ pos < Len(data)

\* the operations that decode from a cursor, and the decode each one is
DecodeOps == {"constant", "attribute", "verification_type", "frame", "row"}

Decoded(o, d, pool) ==
    CASE o = "constant" -> Constant_deserialize(d, 0)
      [] o = "attribute" -> Attribute_deserialize(d, 0, pool)
      [] o = "verification_type" -> VerificationType_deserialize(d, 0)
      [] o = "frame" -> StackMapFrame_deserialize(d, 0)
      [] o = "row" -> ExceptionTableRow_deserialize(d, 0)

\* the variants of ClassLoaderError
ClassLoaderErrorKinds ==
    {"Utf8", "Eof", "InvalidConstantRef", "InvalidConstantType", "InvalidMethodHandleKind",
     "InvalidAttributeType", "InvalidStackFrameType", "InvalidVerificationType",
     "LengthMismatch", "Misc", "UnknownAttributeType"}

\* C27: no decode reads at or beyond the end of its input.  The cursor never
\* passes the end; the outcome is the same when the input is cut off at the
\* cursor, so nothing at or after it was looked at; every failure is a
\* ClassLoaderError, never a panic; and when a decode succeeds, the same decode
\* of any shorter input fails with Eof, its cursor inside that input.
C27_NoReadPastEnd ==
    op \in DecodeOps =>
        /\ pos <= Len(data)
        /\ result.pos = pos
        /\ ~result.ok => result.err.kind \in ClassLoaderErrorKinds
        /\ Decoded(op, SubSeq(data, 1, pos), constants) = result
        /\ result.ok =>
               \A k \in 0..(pos - 1) :
                   LET r == Decoded(op, SubSeq(data, 1, k), constants)
                   IN  ~r.ok /\ r.err.kind = "Eof" /\ r.pos <= k

\* a Code attribute cut off inside the name index of a sub-attribute: Eof with
\* the cursor at the end of the input
C27_Witness ==
    /\ op = "attribute"
    /\ CodeHeadPresent
    /\ Failed("Eof")
    /\ result.err.context = "constant index"
    /\ pos = Len(data) - 1
    /\ pos > ExceptionTableAt + 4

\* the attribute decoded from position p of d took 6 bytes and the length it
\* declares, and so did each of its sub-attributes, laid end to end up to the
\* end of the attribute around them, to any depth
RECURSIVE TakesDeclared(_, _, _, _)
TakesDeclared(d, p, pool, attribute) ==
    LET declared == get_u32_be(d, p + 2)
        end == p + 6 + AsUsize(declared)
    IN  /\ declared[1] = 0
        /\ Attribute_deserialize(d, p, pool) = Ok(attribute, end)
        /\ attribute.attr = "ConstantValue" => end = p + 8
        /\ attribute.attr = "Code" =>
               LET start == p + 18 + Len(attribute.code) + 8 * Len(attribute.exception_table)
                   count == Len(attribute.attributes)
               IN  /\ start + SumOfDeclared(d, start, count) = end
                   /\ \A i \in 1..count :
                          TakesDeclared(d, start + SumOfDeclared(d, start, i - 1), pool,
                                        attribute.attributes[i])

\* C28: whenever Attribute::deserialize succeeds it has consumed exactly 6
\* bytes plus the length the attribute declares: no less and no more, for
\* ConstantValue, Code and StackMapTable, and for every attribute nested in a
\* Code attribute at any depth.
C28_ConsumesDeclared ==
    (op = "attribute" /\ result.ok) =>
        /\ pos = 6 + AsUsize(DeclaredLength)
        /\ TakesDeclared(data, 0, constants, result.val)

\* a Code attribute holding a Code attribute that holds a ConstantValue, with a
\* byte after it
C28_Witness ==
    /\ op = "attribute"
    /\ result.ok
    /\ pos < Len(data)
    /\ result.val.attr = "Code"
    /\ Len(result.val.attributes) > 0
    /\ result.val.attributes[1].attr = "Code"
    /\ Len(result.val.attributes[1].attributes) > 0
    /\ result.val.attributes[1].attributes[1].attr = "ConstantValue"

C30_PoolUnchanged ==
    [][/\ constants' = constants
       /\ data' = data
       /\ index' = index
       /\ op' = "lookup" => pos' = pos]_vars

\* an attribute named by a pool entry that is no Utf8 entry is rejected with a
\* copy of the entry, which is still in the pool
C30_Witness ==
    /\ op = "attribute"
    /\ Failed("InvalidAttributeType")
    /\ NameInPool
    /\ result.err.constant = NameEntry
    /\ NameEntry.type = "MethodHandleRef"

=============================================================================
